---- MODULE Spec2Model ----
(***************************************************************************)
(* State-machine model of the personal-finance backend: the route handlers *)
(* of routes/auth.py, routes/users.py, routes/transactions.py,             *)
(* routes/budgets.py, routes/goals.py and routes/analytics.py acting on    *)
(* the User, Transaction, Budget and Goal tables.                          *)
(*                                                                         *)
(* Money is an integer number of currency units.  A date is the pair       *)
(* (year, month) for a transaction and a day number for a goal deadline.   *)
(* One step of a specification is one whole HTTP request: the handler runs *)
(* from the resolution of the caller to its commit or to the error it      *)
(* raises.  A handler that raises commits nothing: its session is closed   *)
(* without a commit, so the tables keep their values.                      *)
(***************************************************************************)
EXTENDS Integers, FiniteSets, Sequences, TLC

VARIABLES
    users,          \* User rows: [id, email, username, hashed_password, is_active]
    sessions,       \* login responses held by clients: [access_token, user_id]
    transactions,   \* Transaction rows
    budgets,        \* Budget rows
    goals,          \* Goal rows
    today,          \* date.today(), a day number
    db_sql,         \* whether `db` has the attributes extract and func
    pending,        \* requests a handler has begun and not yet answered
    history,        \* what the last request found: see NoHistory
    last            \* the last request and its response

vars == <<users, sessions, transactions, budgets, goals, today, db_sql, pending,
          history, last>>

----------------------------------------------------------------------------
(* Bounds of the model *)

MaxUsers == 2
MaxTransactions == 2
MaxBudgets == 2
MaxGoals == 1
MaxDay == 2

(* Request universes *)

Emails == {"a@x.io", "b@x.io"}
Usernames == {"alice", "bob"}
Passwords == {"pw1", "pw2"}
None == "None"

\* An optional request field: Absent (null, or left out) or Some(v).
Absent == {}
Some(v) == {v}
Val(o) == CHOOSE v \in o : TRUE
Optional(S) == {Absent} \cup {Some(v) : v \in S}

----------------------------------------------------------------------------
(* Generic helpers *)

\* The largest element of a finite set of naturals, 0 for the empty set.
MaxOf(S) == IF S = {} THEN 0 ELSE CHOOSE m \in S : \A x \in S : x <= m

\* The primary key the database gives a new row: one above the largest in use.
NextId(rows) == MaxOf({r.id : r \in rows}) + 1

\* Query.first() of a result set: one row (the lowest id), or the given null.
First(rows, null) ==
    IF rows = {} THEN null
    ELSE CHOOSE r \in rows : \A q \in rows : r.id <= q.id

\* Sum of f[x] over a finite set S.
RECURSIVE SumOver(_, _)
SumOver(S, f) ==
    IF S = {} THEN 0
    ELSE LET x == CHOOSE y \in S : TRUE
         IN f[x] + SumOver(S \ {x}, f)

Abs(x) == IF x < 0 THEN -x ELSE x

\* The body of a response that has none.
NoBody == [none |-> TRUE]

\* An HTTP error raised by a handler (HTTPException(status_code, detail)).
Error(op, caller, id, code, detail) ==
    [op |-> op, caller |-> caller, id |-> id, status |-> code,
     detail |-> detail, body |-> NoBody]

\* A successful response.
Ok(op, caller, id, code, body) ==
    [op |-> op, caller |-> caller, id |-> id, status |-> code,
     detail |-> "", body |-> body]

NoRequest == [op |-> "none", caller |-> 0, id |-> 0, status |-> 0,
              detail |-> "", body |-> NoBody]

\* Bookkeeping about the last request, kept beside its response: whether it
\* fetched the budget the request before it fetched, and the current_spent values
\* it found stored in the budgets it read, before it refreshed them.
NoHistory == [refetch |-> FALSE, stored |-> {}]

----------------------------------------------------------------------------
(* Authentication subsystem *)

NoUser == [id |-> 0, email |-> None, username |-> None,
           hashed_password |-> None, is_active |-> FALSE]

\* get_password_hash: the stored hash of a password.
get_password_hash(pw) == <<"bcrypt", pw>>

\* verify_password / pwd_context.verify
verify_password(pw, hashed) == hashed = get_password_hash(pw)

\* create_access_token(data={"sub": username}): the signed claims.
create_access_token(username) == [sub |-> username]

\* The current-user dependency: decode the subject, look the user up by username,
\* reject (NoUser) a missing or an inactive user.
get_current_user(token) ==
    LET u == First({x \in users : x.username = token.sub}, NoUser)
    IN IF u = NoUser \/ ~u.is_active THEN NoUser ELSE u

Unauthorized(op) == Error(op, 0, 0, 401, "Could not validate credentials")

\* Replace the row with r's id by r.
Store(rows, r) == {x \in rows : x.id # r.id} \cup {r}

\* A faulty variant of SessionClosed: the session's changes reach the table.
SessionClosed_flushed(committed, dirty) == dirty

\* The table after a request ends without db.commit(): the request's session
\* is closed on every exit path, and what it assigned but never committed is
\* rolled back. `dirty` is the table as the session saw it when the handler raised.
SessionClosed(committed, dirty) == committed

\* A faulty variant of EmailRegistered: the lookup that never finds the email.
EmailRegistered_unchecked(email) == FALSE

\* db.query(User).filter(User.email == email).first() is a user
EmailRegistered(email) == First({u \in users : u.email = email}, NoUser) # NoUser

\* A faulty variant of UsernameTaken: the lookup that never finds the name.
UsernameTaken_unchecked(username) == FALSE

\* db.query(User).filter(User.username == username).first() is a user
UsernameTaken(username) ==
    First({u \in users : u.username = username}, NoUser) # NoUser

\* POST /auth/register
register(email, username, password) ==
    /\ UNCHANGED <<db_sql, pending>>
    /\ history' = NoHistory
    /\ UNCHANGED <<sessions, transactions, budgets, goals, today>>
    /\ IF EmailRegistered(email)
       THEN /\ last' = Error("register", 0, 0, 400, "Email already registered")
            /\ UNCHANGED users
       ELSE IF UsernameTaken(username)
       THEN /\ last' = Error("register", 0, 0, 400, "Username already taken")
            /\ UNCHANGED users
       ELSE /\ Cardinality(users) < MaxUsers
            /\ LET db_user == [id |-> NextId(users), email |-> email,
                               username |-> username,
                               hashed_password |-> get_password_hash(password),
                               is_active |-> TRUE]
               IN /\ users' = users \cup {db_user}
                  /\ last' = Ok("register", 0, 0, 200, [user_id |-> db_user.id])

\* POST /auth/login
login(email, password) ==
    /\ UNCHANGED <<db_sql, pending>>
    /\ history' = NoHistory
    /\ UNCHANGED <<users, transactions, budgets, goals, today>>
    /\ LET db_user == First({u \in users : u.email = email}, NoUser)
       IN IF db_user = NoUser \/ ~verify_password(password, db_user.hashed_password)
          THEN /\ last' = Error("login", 0, 0, 401, "Incorrect email or password")
               /\ UNCHANGED sessions
          ELSE IF ~db_user.is_active
          THEN /\ last' = Error("login", 0, 0, 403, "User account is inactive")
               /\ UNCHANGED sessions
          ELSE LET resp == [access_token |-> create_access_token(db_user.username),
                            user_id |-> db_user.id]
               IN /\ sessions' = sessions \cup {resp}
                  /\ last' = Ok("login", 0, 0, 200,
                                [access_token |-> resp.access_token,
                                 user_id |-> resp.user_id,
                                 email |-> db_user.email])

\* An access token passes its expiry: the client that holds it can no longer use it.
token_expires(s) ==
    /\ UNCHANGED <<db_sql, pending>>
    /\ sessions' = sessions \ {s}
    /\ UNCHANGED <<users, transactions, budgets, goals, today, history, last>>

\* GET /users/me
get_current_user_profile(s) ==
    /\ UNCHANGED <<db_sql, pending>>
    /\ history' = NoHistory
    /\ UNCHANGED <<users, sessions, transactions, budgets, goals, today>>
    /\ LET current_user == get_current_user(s.access_token)
       IN IF current_user = NoUser
          THEN last' = Unauthorized("get_me")
          ELSE last' = Ok("get_me", s.user_id, 0, 200,
                          [id |-> current_user.id,
                           email |-> current_user.email,
                           username |-> current_user.username,
                           is_active |-> current_user.is_active])

\* PUT /users/me
update_user_profile(s, email, username) ==
    /\ UNCHANGED <<db_sql, pending>>
    /\ history' = NoHistory
    /\ UNCHANGED <<sessions, transactions, budgets, goals, today>>
    /\ LET current_user == get_current_user(s.access_token)
           e_changes == email # None /\ email # current_user.email
           u_changes == username # None /\ username # current_user.username
       IN IF current_user = NoUser
          THEN /\ last' = Unauthorized("update_me")
               /\ UNCHANGED users
          ELSE IF e_changes /\ EmailRegistered(email)
          THEN /\ last' = Error("update_me", s.user_id, 0, 400, "Email already registered")
               /\ UNCHANGED users
          ELSE IF u_changes /\ UsernameTaken(username)
          THEN /\ last' = Error("update_me", s.user_id, 0, 400, "Username already taken")
               /\ users' = SessionClosed(users,
                                         Store(users,
                                               [current_user EXCEPT
                                                  !.email = IF e_changes THEN email
                                                            ELSE @]))
          ELSE LET updated == [current_user EXCEPT
                                 !.email = IF e_changes THEN email ELSE @,
                                 !.username = IF u_changes THEN username ELSE @]
               IN /\ users' = Store(users, updated)
                  /\ last' = Ok("update_me", s.user_id, 0, 200,
                                [id |-> updated.id, email |-> updated.email,
                                 username |-> updated.username,
                                 is_active |-> updated.is_active])

\* DELETE /users/me (soft delete)
delete_user_account(s) ==
    /\ UNCHANGED <<db_sql, pending>>
    /\ history' = NoHistory
    /\ UNCHANGED <<sessions, transactions, budgets, goals, today>>
    /\ LET current_user == get_current_user(s.access_token)
       IN IF current_user = NoUser
          THEN /\ last' = Unauthorized("delete_me")
               /\ UNCHANGED users
          ELSE /\ users' = Store(users, [current_user EXCEPT !.is_active = FALSE])
               /\ last' = Ok("delete_me", s.user_id, 0, 204, NoBody)

----------------------------------------------------------------------------
(* Transactions (routes/transactions.py) *)

\* ExpenseCategorizer.CATEGORIES
CATEGORIES == {"Food & Dining", "Transportation", "Shopping", "Entertainment",
               "Bills & Utilities", "Healthcare", "Education", "Travel",
               "Personal Care", "Groceries", "Income", "Other"}

\* datetime.utcnow() as (year, month): the clock stays within one month.
UtcNow == [year |-> 2025, month |-> 1]

NoRow == [id |-> 0, user_id |-> 0]

\* A faulty variant of OwnedById: the lookup without the user_id condition.
OwnedById_any_owner(rows, id, current_user) ==
    First({r \in rows : r.id = id}, NoRow)

\* db.query(T).filter(T.id == id, T.user_id == current_user.id).first()
OwnedById(rows, id, current_user) ==
    First({r \in rows : r.id = id /\ r.user_id = current_user.id}, NoRow)

\* POST /transactions; `category` is what ExpenseCategorizer.categorize returned.
create_transaction(s, amount, transaction_type, date, category) ==
    /\ UNCHANGED <<db_sql, pending>>
    /\ history' = NoHistory
    /\ UNCHANGED <<users, sessions, budgets, goals, today>>
    /\ LET current_user == get_current_user(s.access_token)
       IN IF current_user = NoUser
          THEN /\ last' = Unauthorized("create_transaction")
               /\ UNCHANGED transactions
          ELSE /\ NextId(transactions) <= MaxTransactions
               /\ LET db_transaction ==
                        [id |-> NextId(transactions),
                         user_id |-> current_user.id,
                         amount |-> amount,
                         category |-> category,
                         transaction_type |-> transaction_type,
                         date |-> IF date = Absent THEN UtcNow ELSE Val(date)]
                  IN /\ transactions' = transactions \cup {db_transaction}
                     /\ last' = Ok("create_transaction", s.user_id,
                                   db_transaction.id, 200, db_transaction)

\* GET /transactions/{transaction_id}
get_transaction(s, transaction_id) ==
    /\ UNCHANGED <<db_sql, pending>>
    /\ history' = NoHistory
    /\ UNCHANGED <<users, sessions, transactions, budgets, goals, today>>
    /\ LET current_user == get_current_user(s.access_token)
           transaction == OwnedById(transactions, transaction_id, current_user)
       IN IF current_user = NoUser
          THEN last' = Unauthorized("get_transaction")
          ELSE IF transaction = NoRow
          THEN last' = Error("get_transaction", s.user_id, transaction_id,
                             404, "Transaction not found")
          ELSE last' = Ok("get_transaction", s.user_id, transaction_id,
                          200, transaction)

\* DELETE /transactions/{transaction_id}
delete_transaction(s, transaction_id) ==
    /\ UNCHANGED <<db_sql, pending>>
    /\ history' = NoHistory
    /\ UNCHANGED <<users, sessions, budgets, goals, today>>
    /\ LET current_user == get_current_user(s.access_token)
           transaction == OwnedById(transactions, transaction_id, current_user)
       IN IF current_user = NoUser
          THEN /\ last' = Unauthorized("delete_transaction")
               /\ UNCHANGED transactions
          ELSE IF transaction = NoRow
          THEN /\ last' = Error("delete_transaction", s.user_id, transaction_id,
                                404, "Transaction not found")
               /\ UNCHANGED transactions
          ELSE /\ transactions' = transactions \ {transaction}
               /\ last' = Ok("delete_transaction", s.user_id, transaction_id,
                             200, NoBody)

\* PUT /transactions/{transaction_id}; upd holds the body's fields, Absent when null.
update_transaction(s, transaction_id, upd) ==
    /\ UNCHANGED <<db_sql, pending>>
    /\ history' = NoHistory
    /\ UNCHANGED <<users, sessions, budgets, goals, today>>
    /\ LET current_user == get_current_user(s.access_token)
           transaction == OwnedById(transactions, transaction_id, current_user)
       IN IF current_user = NoUser
          THEN /\ last' = Unauthorized("update_transaction")
               /\ UNCHANGED transactions
          ELSE IF transaction = NoRow
          THEN /\ last' = Error("update_transaction", s.user_id, transaction_id,
                                404, "Transaction not found")
               /\ UNCHANGED transactions
          ELSE LET updated ==
                     [transaction EXCEPT
                        !.amount = IF upd.amount # Absent THEN Val(upd.amount) ELSE @,
                        !.category = IF upd.category # Absent THEN Val(upd.category) ELSE @,
                        !.transaction_type = IF upd.transaction_type # Absent
                                             THEN Val(upd.transaction_type) ELSE @,
                        !.date = IF upd.date # Absent THEN Val(upd.date) ELSE @]
               IN /\ transactions' = Store(transactions, updated)
                  /\ last' = Ok("update_transaction", s.user_id, transaction_id,
                                200, updated)

----------------------------------------------------------------------------
(* Budgets (routes/budgets.py) *)

\* The current_spent query calls db.extract and db.func on the handler's `db`, the
\* object get_db yields (database.py is not among the sources; the handlers declare
\* it a sqlalchemy.orm.Session, which has neither attribute).  db_sql tells whether
\* the deployment's `db` has them: where it has not, evaluating the query raises
\* AttributeError, the request ends in a 500 and nothing is committed.
InternalServerError(op, caller, id) ==
    Error(op, caller, id, 500, "Internal Server Error")

\* The rows the current_spent query sums: the caller's expense transactions of the
\* budget's category whose date falls in the budget's month and year.
SpentRows(user_id, category, month, year) ==
    {t \in transactions :
        /\ t.user_id = user_id
        /\ t.category = category
        /\ t.transaction_type = "expense"
        /\ t.date.month = month
        /\ t.date.year = year}

\* ...with_entities(func.sum(Transaction.amount)).scalar() or 0.0
SpentQuery(user_id, category, month, year) ==
    LET rows == SpentRows(user_id, category, month, year)
    IN SumOver(rows, [t \in rows |-> t.amount])

\* A faulty variant of RecomputedSpent: the stored value, not recomputed.
RecomputedSpent_stale(budget, user_id) == budget.current_spent

\* A faulty variant of RecomputedSpent: the sum added to the stored value.
RecomputedSpent_accumulating(budget, user_id) ==
    budget.current_spent
        + SpentQuery(user_id, budget.category, budget.month, budget.year)

\* The value a handler assigns to budget.current_spent before it responds.
RecomputedSpent(budget, user_id) ==
    SpentQuery(user_id, budget.category, budget.month, budget.year)

\* n / d rounded to the nearest integer, halves to the even one (d > 0).
RoundDiv(n, d) ==
    LET q == n \div d
        r == n % d
    IN IF 2 * r < d THEN q
       ELSE IF 2 * r > d THEN q + 1
       ELSE IF q % 2 = 0 THEN q ELSE q + 1

\* A faulty variant of PercentageAtLeast: > in place of >=.
PercentageAtLeast_strict(budget, p) ==
    IF budget.monthly_limit > 0
    THEN budget.current_spent * 100 > p * budget.monthly_limit
    ELSE 0 > p

\* percentage_used >= p, for percentage_used = current_spent / monthly_limit * 100
\* if monthly_limit > 0 else 0, before any rounding.
PercentageAtLeast(budget, p) ==
    IF budget.monthly_limit > 0
    THEN budget.current_spent * 100 >= p * budget.monthly_limit
    ELSE 0 >= p

\* The status _format_budget_response determines.
BudgetStatus(budget) ==
    IF PercentageAtLeast(budget, 100) THEN "over_budget"
    ELSE IF PercentageAtLeast(budget, 80) THEN "near_limit"
    ELSE "under_budget"

\* round(percentage_used, 2), as a number of hundredths of a percent.
RoundedPercentage(budget) ==
    IF budget.monthly_limit > 0
    THEN RoundDiv(budget.current_spent * 10000, budget.monthly_limit)
    ELSE 0

\* _format_budget_response
_format_budget_response(budget) ==
    [id |-> budget.id,
     user_id |-> budget.user_id,
     category |-> budget.category,
     monthly_limit |-> budget.monthly_limit,
     current_spent |-> budget.current_spent,
     remaining |-> budget.monthly_limit - budget.current_spent,
     percentage_used |-> RoundedPercentage(budget),
     month |-> budget.month,
     year |-> budget.year,
     status |-> BudgetStatus(budget)]

\* The duplicate check of create_budget.
BudgetExists(user_id, category, month, year) ==
    \E b \in budgets :
        /\ b.user_id = user_id
        /\ b.category = category
        /\ b.month = month
        /\ b.year = year

\* POST /budgets
create_budget(s, category, monthly_limit, month, year) ==
    /\ UNCHANGED <<db_sql, pending>>
    /\ history' = NoHistory
    /\ UNCHANGED <<users, sessions, transactions, goals, today>>
    /\ LET current_user == get_current_user(s.access_token)
       IN IF current_user = NoUser
          THEN /\ last' = Unauthorized("create_budget")
               /\ UNCHANGED budgets
          ELSE IF BudgetExists(current_user.id, category, month, year)
          THEN /\ last' = Error("create_budget", s.user_id, 0, 400,
                                "Budget already exists")
               /\ UNCHANGED budgets
          ELSE IF ~db_sql
          THEN /\ last' = InternalServerError("create_budget", s.user_id, 0)
               /\ UNCHANGED budgets
          ELSE /\ NextId(budgets) <= MaxBudgets
               /\ LET new_budget ==
                        [id |-> NextId(budgets),
                         user_id |-> current_user.id,
                         category |-> category,
                         monthly_limit |-> monthly_limit,
                         current_spent |-> SpentQuery(current_user.id, category,
                                                      month, year),
                         month |-> month,
                         year |-> year]
                  IN /\ budgets' = budgets \cup {new_budget}
                     /\ last' = Ok("create_budget", s.user_id, new_budget.id, 201,
                                   _format_budget_response(new_budget))

\* What the caller's budgets among `ids` held as current_spent when the request came.
StoredSpent(s, ids) ==
    {<<b.id, b.current_spent>> :
        b \in {x \in budgets : /\ x.id \in ids
                                /\ x.user_id = get_current_user(s.access_token).id}}

\* GET /budgets; month and year are Absent when the query leaves them out.
get_budgets(s, month, year) ==
    /\ UNCHANGED <<db_sql, pending>>
    /\ history' = [refetch |-> FALSE,
                   stored |-> StoredSpent(s, {b.id : b \in
                       {x \in budgets : /\ month # Absent => x.month = Val(month)
                                        /\ year # Absent => x.year = Val(year)}})]
    /\ UNCHANGED <<users, sessions, transactions, goals, today>>
    /\ LET current_user == get_current_user(s.access_token)
           found == {b \in budgets :
                       /\ b.user_id = current_user.id
                       /\ (month # Absent => b.month = Val(month))
                       /\ (year # Absent => b.year = Val(year))}
           refreshed ==
               {[b EXCEPT !.current_spent = RecomputedSpent(b, current_user.id)] :
                    b \in found}
       IN IF current_user = NoUser
          THEN /\ last' = Unauthorized("get_budgets")
               /\ UNCHANGED budgets
          ELSE IF found # {} /\ ~db_sql
          THEN /\ last' = InternalServerError("get_budgets", s.user_id, 0)
               /\ UNCHANGED budgets
          ELSE /\ budgets' = (budgets \ found) \cup refreshed
               /\ last' = Ok("get_budgets", s.user_id, 0, 200,
                             [budgets |-> {_format_budget_response(b) : b \in refreshed}])

\* The request repeats the last one: the same caller fetched the same budget.
SameFetch(s, budget_id) ==
    /\ last.op = "get_budget"
    /\ last.status = 200
    /\ last.caller = s.user_id
    /\ last.id = budget_id
    /\ get_current_user(s.access_token) # NoUser
    /\ OwnedById(budgets, budget_id, get_current_user(s.access_token)) # NoRow

\* GET /budgets/{budget_id}
get_budget(s, budget_id) ==
    /\ UNCHANGED <<db_sql, pending>>
    /\ history' = [refetch |-> SameFetch(s, budget_id),
                   stored |-> StoredSpent(s, {budget_id})]
    /\ UNCHANGED <<users, sessions, transactions, goals, today>>
    /\ LET current_user == get_current_user(s.access_token)
           budget == OwnedById(budgets, budget_id, current_user)
       IN IF current_user = NoUser
          THEN /\ last' = Unauthorized("get_budget")
               /\ UNCHANGED budgets
          ELSE IF budget = NoRow
          THEN /\ last' = Error("get_budget", s.user_id, budget_id, 404,
                                "Budget not found")
               /\ UNCHANGED budgets
          ELSE IF ~db_sql
          THEN /\ last' = InternalServerError("get_budget", s.user_id, budget_id)
               /\ UNCHANGED budgets
          ELSE LET refreshed ==
                     [budget EXCEPT
                        !.current_spent = RecomputedSpent(budget, current_user.id)]
               IN /\ budgets' = Store(budgets, refreshed)
                  /\ last' = Ok("get_budget", s.user_id, budget_id, 200,
                                _format_budget_response(refreshed))

\* PUT /budgets/{budget_id}; upd holds monthly_limit, month and year, Absent when null.
update_budget(s, budget_id, upd) ==
    /\ UNCHANGED <<db_sql, pending>>
    /\ history' = [refetch |-> FALSE, stored |-> StoredSpent(s, {budget_id})]
    /\ UNCHANGED <<users, sessions, transactions, goals, today>>
    /\ LET current_user == get_current_user(s.access_token)
           budget == OwnedById(budgets, budget_id, current_user)
       IN IF current_user = NoUser
          THEN /\ last' = Unauthorized("update_budget")
               /\ UNCHANGED budgets
          ELSE IF budget = NoRow
          THEN /\ last' = Error("update_budget", s.user_id, budget_id, 404,
                                "Budget not found")
               /\ UNCHANGED budgets
          ELSE IF ~db_sql
          THEN /\ last' = InternalServerError("update_budget", s.user_id, budget_id)
               /\ UNCHANGED budgets
          ELSE LET assigned ==
                     [budget EXCEPT
                        !.monthly_limit = IF upd.monthly_limit # Absent
                                          THEN Val(upd.monthly_limit) ELSE @,
                        !.month = IF upd.month # Absent THEN Val(upd.month) ELSE @,
                        !.year = IF upd.year # Absent THEN Val(upd.year) ELSE @]
                   refreshed ==
                     [assigned EXCEPT
                        !.current_spent = RecomputedSpent(assigned, current_user.id)]
               IN /\ budgets' = Store(budgets, refreshed)
                  /\ last' = Ok("update_budget", s.user_id, budget_id, 200,
                                _format_budget_response(refreshed))

\* DELETE /budgets/{budget_id}
delete_budget(s, budget_id) ==
    /\ UNCHANGED <<db_sql, pending>>
    /\ history' = NoHistory
    /\ UNCHANGED <<users, sessions, transactions, goals, today>>
    /\ LET current_user == get_current_user(s.access_token)
           budget == OwnedById(budgets, budget_id, current_user)
       IN IF current_user = NoUser
          THEN /\ last' = Unauthorized("delete_budget")
               /\ UNCHANGED budgets
          ELSE IF budget = NoRow
          THEN /\ last' = Error("delete_budget", s.user_id, budget_id, 404,
                                "Budget not found")
               /\ UNCHANGED budgets
          ELSE /\ budgets' = budgets \ {budget}
               /\ last' = Ok("delete_budget", s.user_id, budget_id, 204, NoBody)

----------------------------------------------------------------------------
(* Goals (routes/goals.py) *)

\* _format_goal_response; monthly_savings_needed is in hundredths of a unit.
_format_goal_response(goal) ==
    LET remaining_amount == IF goal.target_amount - goal.current_amount > 0
                            THEN goal.target_amount - goal.current_amount ELSE 0
        days_remaining == goal.target_date - today
    IN [id |-> goal.id,
        user_id |-> goal.user_id,
        target_amount |-> goal.target_amount,
        current_amount |-> goal.current_amount,
        remaining_amount |-> remaining_amount,
        target_date |-> goal.target_date,
        days_remaining |-> IF days_remaining > 0 THEN days_remaining ELSE 0,
        is_completed |-> goal.is_completed,
        status |-> IF goal.is_completed THEN "completed"
                   ELSE IF days_remaining < 0 THEN "overdue"
                   ELSE IF goal.current_amount * (days_remaining + 1)
                             >= goal.target_amount THEN "on_track"
                   ELSE "behind",
        monthly_savings_needed |->
                   IF goal.is_completed THEN 0
                   ELSE IF days_remaining <= 30 THEN remaining_amount * 100
                   ELSE RoundDiv(remaining_amount * 3000, days_remaining)]

\* A faulty variant of GoalCreateError: < in place of <= on the date.
GoalCreateError_today_allowed(target_amount, current_amount, target_date) ==
    IF target_date < today THEN "Target date must be in the future"
    ELSE IF current_amount > target_amount
    THEN "Current amount cannot exceed target amount"
    ELSE ""

\* The two validations of create_goal, in the order the handler makes them.
GoalCreateError(target_amount, current_amount, target_date) ==
    IF target_date <= today THEN "Target date must be in the future"
    ELSE IF current_amount > target_amount
    THEN "Current amount cannot exceed target amount"
    ELSE ""

\* POST /goals
create_goal(s, target_amount, current_amount, target_date) ==
    /\ UNCHANGED <<db_sql, pending>>
    /\ history' = NoHistory
    /\ UNCHANGED <<users, sessions, transactions, budgets, today>>
    /\ LET current_user == get_current_user(s.access_token)
           problem == GoalCreateError(target_amount, current_amount, target_date)
       IN IF current_user = NoUser
          THEN /\ last' = Unauthorized("create_goal")
               /\ UNCHANGED goals
          ELSE IF target_amount <= 0 \/ current_amount < 0
          THEN /\ last' = Error("create_goal", s.user_id, 0, 422, "validation error")
               /\ UNCHANGED goals
          ELSE IF problem # ""
          THEN /\ last' = Error("create_goal", s.user_id, 0, 400, problem)
               /\ UNCHANGED goals
          ELSE /\ NextId(goals) <= MaxGoals
               /\ LET new_goal == [id |-> NextId(goals),
                                   user_id |-> current_user.id,
                                   target_amount |-> target_amount,
                                   current_amount |-> current_amount,
                                   target_date |-> target_date,
                                   is_completed |-> FALSE]
                  IN /\ goals' = goals \cup {new_goal}
                     /\ last' = Ok("create_goal", s.user_id, new_goal.id, 201,
                                   _format_goal_response(new_goal))

\* GET /goals/{goal_id}
get_goal(s, goal_id) ==
    /\ UNCHANGED <<db_sql, pending>>
    /\ history' = NoHistory
    /\ UNCHANGED <<users, sessions, transactions, budgets, goals, today>>
    /\ LET current_user == get_current_user(s.access_token)
           goal == OwnedById(goals, goal_id, current_user)
       IN IF current_user = NoUser
          THEN last' = Unauthorized("get_goal")
          ELSE IF goal = NoRow
          THEN last' = Error("get_goal", s.user_id, goal_id, 404, "Goal not found")
          ELSE last' = Ok("get_goal", s.user_id, goal_id, 200,
                          _format_goal_response(goal))

\* The goal after update_goal's assignments and its auto-completion; upd holds
\* target_amount, current_amount, target_date and is_completed, Absent when null.
UpdatedGoal(goal, upd) ==
    LET assigned ==
          [goal EXCEPT
             !.target_amount = IF upd.target_amount # Absent
                               THEN Val(upd.target_amount) ELSE @,
             !.current_amount = IF upd.current_amount # Absent
                                THEN Val(upd.current_amount) ELSE @,
             !.target_date = IF upd.target_date # Absent THEN Val(upd.target_date) ELSE @,
             !.is_completed = IF upd.is_completed # Absent THEN Val(upd.is_completed) ELSE @]
    IN IF assigned.current_amount >= assigned.target_amount
       THEN [assigned EXCEPT !.is_completed = TRUE]
       ELSE assigned

\* The goal as update_goal's session holds it when the target date is looked
\* at: the amounts of the request are already assigned.
AssignedBeforeDate(goal, upd) ==
    [goal EXCEPT
       !.target_amount = IF upd.target_amount # Absent
                         THEN Val(upd.target_amount) ELSE @,
       !.current_amount = IF upd.current_amount # Absent
                          THEN Val(upd.current_amount) ELSE @]

\* PUT /goals/{goal_id}
update_goal(s, goal_id, upd) ==
    /\ UNCHANGED <<db_sql, pending>>
    /\ history' = NoHistory
    /\ UNCHANGED <<users, sessions, transactions, budgets, today>>
    /\ LET current_user == get_current_user(s.access_token)
           goal == OwnedById(goals, goal_id, current_user)
       IN IF current_user = NoUser
          THEN /\ last' = Unauthorized("update_goal")
               /\ UNCHANGED goals
          ELSE IF \/ (upd.target_amount # Absent /\ Val(upd.target_amount) <= 0)
                  \/ (upd.current_amount # Absent /\ Val(upd.current_amount) < 0)
          THEN /\ last' = Error("update_goal", s.user_id, goal_id, 422,
                                "validation error")
               /\ UNCHANGED goals
          ELSE IF goal = NoRow
          THEN /\ last' = Error("update_goal", s.user_id, goal_id, 404,
                                "Goal not found")
               /\ UNCHANGED goals
          ELSE IF /\ upd.target_date # Absent
                  /\ Val(upd.target_date) <= today
                  /\ ~goal.is_completed
          THEN /\ last' = Error("update_goal", s.user_id, goal_id, 400,
                                "Target date must be in the future for active goals")
               /\ goals' = SessionClosed(goals,
                                         Store(goals, AssignedBeforeDate(goal, upd)))
          ELSE LET updated == UpdatedGoal(goal, upd)
               IN /\ goals' = Store(goals, updated)
                  /\ last' = Ok("update_goal", s.user_id, goal_id, 200,
                                _format_goal_response(updated))

\* A faulty variant of Contributed: > in place of >= on the target.
Contributed_above_target(goal, amount) ==
    LET added == [goal EXCEPT !.current_amount = @ + amount]
    IN IF added.current_amount > added.target_amount
       THEN [added EXCEPT !.is_completed = TRUE]
       ELSE added

\* The goal after a contribution: the amount added, completed on reaching the target.
Contributed(goal, amount) ==
    LET added == [goal EXCEPT !.current_amount = @ + amount]
    IN IF added.current_amount >= added.target_amount
       THEN [added EXCEPT !.is_completed = TRUE]
       ELSE added

\* POST /goals/{goal_id}/contribute
contribute_to_goal(s, goal_id, amount) ==
    /\ UNCHANGED <<db_sql, pending>>
    /\ history' = NoHistory
    /\ UNCHANGED <<users, sessions, transactions, budgets, today>>
    /\ LET current_user == get_current_user(s.access_token)
           goal == OwnedById(goals, goal_id, current_user)
       IN IF current_user = NoUser
          THEN /\ last' = Unauthorized("contribute")
               /\ UNCHANGED goals
          ELSE IF amount <= 0
          THEN /\ last' = Error("contribute", s.user_id, goal_id, 422,
                                "validation error")
               /\ UNCHANGED goals
          ELSE IF goal = NoRow
          THEN /\ last' = Error("contribute", s.user_id, goal_id, 404,
                                "Goal not found")
               /\ UNCHANGED goals
          ELSE IF goal.is_completed
          THEN /\ last' = Error("contribute", s.user_id, goal_id, 400,
                                "Cannot contribute to a completed goal")
               /\ UNCHANGED goals
          ELSE LET updated == Contributed(goal, amount)
               IN /\ goals' = Store(goals, updated)
                  /\ last' = Ok("contribute", s.user_id, goal_id, 200,
                                _format_goal_response(updated))

\* DELETE /goals/{goal_id}
delete_goal(s, goal_id) ==
    /\ UNCHANGED <<db_sql, pending>>
    /\ history' = NoHistory
    /\ UNCHANGED <<users, sessions, transactions, budgets, today>>
    /\ LET current_user == get_current_user(s.access_token)
           goal == OwnedById(goals, goal_id, current_user)
       IN IF current_user = NoUser
          THEN /\ last' = Unauthorized("delete_goal")
               /\ UNCHANGED goals
          ELSE IF goal = NoRow
          THEN /\ last' = Error("delete_goal", s.user_id, goal_id, 404,
                                "Goal not found")
               /\ UNCHANGED goals
          ELSE /\ goals' = goals \ {goal}
               /\ last' = Ok("delete_goal", s.user_id, goal_id, 204, NoBody)

\* Midnight passes: date.today() moves on by one day.
next_day ==
    /\ UNCHANGED <<db_sql, pending>>
    /\ today < MaxDay
    /\ today' = today + 1
    /\ UNCHANGED <<users, sessions, transactions, budgets, goals, history, last>>

----------------------------------------------------------------------------
(* Analytics (routes/analytics.py) *)

\* sum(t.amount for t in transactions if t.transaction_type == "income")
TotalIncome(rows) ==
    LET income == {t \in rows : t.transaction_type = "income"}
    IN SumOver(income, [t \in income |-> t.amount])

\* A faulty variant of TotalExpenses: the amounts without abs().
TotalExpenses_signed(rows) ==
    LET expense == {t \in rows : t.transaction_type = "expense"}
    IN SumOver(expense, [t \in expense |-> t.amount])

\* sum(abs(t.amount) for t in transactions if t.transaction_type == "expense")
TotalExpenses(rows) ==
    LET expense == {t \in rows : t.transaction_type = "expense"}
    IN SumOver(expense, [t \in expense |-> Abs(t.amount)])

\* The category breakdown: a dictionary from each category that has an expense to
\* the sum of the absolute amounts of its expenses.
CategoryBreakdown(rows) ==
    LET expense == {t \in rows : t.transaction_type = "expense"}
    IN [c \in {t.category : t \in expense} |->
           LET of_c == {t \in expense : t.category = c}
           IN SumOver(of_c, [t \in of_c |-> Abs(t.amount)])]

\* savings_rate = net_savings / total_income * 100 if total_income > 0 else 0,
\* kept as the fraction num / den.
SavingsRate(net_savings, total_income) ==
    IF total_income > 0
    THEN [num |-> net_savings * 100, den |-> total_income]
    ELSE [num |-> 0, den |-> 1]

\* The rows the analytics handlers read: the caller's transactions.
TransactionsOf(current_user) ==
    {t \in transactions : t.user_id = current_user.id}

\* GET /analytics/summary
get_analytics_summary(s) ==
    /\ UNCHANGED <<db_sql, pending>>
    /\ history' = NoHistory
    /\ UNCHANGED <<users, sessions, transactions, budgets, goals, today>>
    /\ LET current_user == get_current_user(s.access_token)
           rows == TransactionsOf(current_user)
           total_income == TotalIncome(rows)
           total_expenses == TotalExpenses(rows)
           net_savings == total_income - total_expenses
       IN IF current_user = NoUser
          THEN last' = Unauthorized("summary")
          ELSE last' = Ok("summary", s.user_id, 0, 200,
                          [total_income |-> total_income,
                           total_expenses |-> total_expenses,
                           net_savings |-> net_savings,
                           savings_rate |-> SavingsRate(net_savings, total_income),
                           category_breakdown |-> CategoryBreakdown(rows)])

----------------------------------------------------------------------------
(* The authentication specification: registration, login and profile changes *)
(* on an initially empty database.                                           *)

InitAuth ==
    /\ users = {}
    /\ sessions = {}
    /\ transactions = {}
    /\ budgets = {}
    /\ goals = {}
    /\ today = 0
    /\ db_sql \in BOOLEAN
    /\ pending = {}
    /\ history = NoHistory
    /\ last = NoRequest

NextAuth ==
    \/ \E e \in Emails, u \in Usernames, p \in Passwords : register(e, u, p)
    \/ \E e \in Emails, p \in Passwords : login(e, p)
    \/ \E s \in sessions : token_expires(s)
    \/ \E s \in sessions : get_current_user_profile(s)
    \/ \E s \in sessions, e \in Emails \cup {None}, u \in Usernames \cup {None} :
          update_user_profile(s, e, u)
    \/ \E s \in sessions : delete_user_account(s)

SpecAuth == InitAuth /\ [][NextAuth]_vars

\* C1: a register request whose email or whose username an existing user already
\* holds is answered with a client error (400) and leaves the user rows as they
\* were: no user is created.
C1_DuplicateRegistrationRejected ==
    [][\A e \in Emails, u \in Usernames, p \in Passwords :
          (/\ last'.op = "register"
           /\ \E x \in users : x.email = e \/ x.username = u
           /\ register(e, u, p))
          => (last'.status = 400 /\ users' = users)]_vars

\* C1's case: a registration was refused for its username alone (the email is free).
C1_Witness ==
    /\ last.op = "register"
    /\ last.status = 400
    /\ last.detail = "Username already taken"
    /\ Cardinality(users) = 1

\* C21: after any sequence of register and update-profile requests made one after
\* the other, no two users share an email and no two users share a username.
C21_EmailAndUsernameUnique ==
    \A u1 \in users : \A u2 \in users :
        (u1.email = u2.email \/ u1.username = u2.username) => u1.id = u2.id

\* C21's case: with two users registered, a profile update that asked for the
\* other user's email was rejected.
C21_Witness ==
    /\ Cardinality(users) = 2
    /\ last.op = "update_me"
    /\ last.status = 400
    /\ last.detail = "Email already registered"

\* C2: the access token a login returns has the username of the user who logged
\* in as its subject, and every later request that bears the token and is accepted
\* resolves to the user id the login returned.
C2_TokenKeepsItsUser ==
    /\ (last.op = "login" /\ last.status = 200) =>
           \E x \in users : /\ x.id = last.body.user_id
                            /\ x.username = last.body.access_token.sub
    /\ (last.op = "get_me" /\ last.status = 200) => last.body.id = last.caller

----------------------------------------------------------------------------
(* The state after two registrations and two logins: the starting point of *)
(* the specifications of the resource routes.                              *)

Alice == [id |-> 1, email |-> "a@x.io", username |-> "alice",
          hashed_password |-> get_password_hash("pw1"), is_active |-> TRUE]
Bob == [id |-> 2, email |-> "b@x.io", username |-> "bob",
        hashed_password |-> get_password_hash("pw2"), is_active |-> TRUE]

SignedIn ==
    /\ users = {Alice, Bob}
    /\ sessions = {[access_token |-> create_access_token(u.username),
                    user_id |-> u.id] : u \in {Alice, Bob}}
    /\ today = 0
    /\ db_sql \in BOOLEAN
    /\ pending = {}
    /\ history = NoHistory
    /\ last = NoRequest

----------------------------------------------------------------------------
(* The ledger specification: transactions change under a budget that is read. *)
(* Alice keeps the budgets; both users keep transactions.                     *)

MaxLedgerBudgets == 1

Food == "Food & Dining"
Salary == "Income"
January == [year |-> 2025, month |-> 1]
February == [year |-> 2025, month |-> 2]
SessionOf(u) == [access_token |-> create_access_token(u.username), user_id |-> u.id]

TxRequest(amount, transaction_type, date, category) ==
    [amount |-> amount, transaction_type |-> transaction_type, date |-> date,
     category |-> category]

\* The transactions a user records: Alice's differ from one another in one field
\* at a time, Bob's is one that Alice also has.
LedgerCreates(s) ==
    IF s = SessionOf(Alice)
    THEN {TxRequest(50, "expense", Absent, Food),
          TxRequest(-30, "expense", Some(January), Food),
          TxRequest(50, "income", Some(January), Food),
          TxRequest(50, "expense", Some(January), "Other"),
          TxRequest(50, "expense", Some(February), Food)}
    ELSE {TxRequest(50, "expense", Some(January), Food)}

TxUpdate(amount, category, transaction_type, date) ==
    [amount |-> amount, category |-> category,
     transaction_type |-> transaction_type, date |-> date]

LedgerUpdates == {TxUpdate(Some(-30), Absent, Absent, Absent),
                  TxUpdate(Absent, Absent, Absent, Some(January))}

BudgetLimits == {100}
BudgetMonths == {1, 2}
BudgetYears == {2025}
BudgetUpdate(monthly_limit, month, year) ==
    [monthly_limit |-> monthly_limit, month |-> month, year |-> year]
BudgetUpdates == {BudgetUpdate(Some(100), Absent, Absent),
                  BudgetUpdate(Absent, Some(1), Some(2025)),
                  BudgetUpdate(Absent, Some(2), Absent)}
TransactionIds == 1..MaxTransactions
LedgerBudgetIds == 1..MaxLedgerBudgets

InitLedger ==
    /\ SignedIn
    /\ transactions = {}
    /\ budgets = {}
    /\ goals = {}

NextLedger ==
    \/ \E s \in sessions : \E r \in LedgerCreates(s) :
          create_transaction(s, r.amount, r.transaction_type, r.date, r.category)
    \/ \E s \in sessions, id \in TransactionIds, upd \in LedgerUpdates :
          update_transaction(s, id, upd)
    \/ \E s \in sessions, id \in TransactionIds : delete_transaction(s, id)
    \/ \E m \in BudgetMonths, y \in BudgetYears :
          /\ NextId(budgets) <= MaxLedgerBudgets
          /\ create_budget(SessionOf(Alice), Food, 100, m, y)
    \/ \E m \in Optional(BudgetMonths) : get_budgets(SessionOf(Alice), m, Absent)
    \/ \E id \in LedgerBudgetIds : get_budget(SessionOf(Alice), id)
    \/ \E id \in LedgerBudgetIds, upd \in BudgetUpdates :
          update_budget(SessionOf(Alice), id, upd)
    \/ \E id \in LedgerBudgetIds : delete_budget(SessionOf(Alice), id)

SpecLedger == InitLedger /\ [][NextLedger]_vars

\* The amounts of the expense transactions of user `user_id` in a category, month
\* and year, added up transaction id by transaction id, up to id k.
RECURSIVE LedgerSumUpTo(_, _, _, _, _)
LedgerSumUpTo(k, user_id, category, month, year) ==
    IF k = 0 THEN 0
    ELSE LET hit == {t \in transactions :
                       /\ t.id = k
                       /\ t.user_id = user_id
                       /\ t.transaction_type = "expense"
                       /\ t.category = category
                       /\ t.date = [year |-> year, month |-> month]}
         IN (IF hit = {} THEN 0 ELSE Val(hit).amount)
                + LedgerSumUpTo(k - 1, user_id, category, month, year)

LedgerSum(user_id, category, month, year) ==
    LedgerSumUpTo(MaxOf({t.id : t \in transactions}), user_id, category, month, year)

\* The budget responses of the last request, if it read budgets.
BudgetReads ==
    IF last.status # 200 THEN {}
    ELSE IF last.op \in {"get_budget", "update_budget"} THEN {last.body}
    ELSE IF last.op = "get_budgets" THEN last.body.budgets
    ELSE {}

\* C6: the current_spent that a get-budget, list-budgets or update-budget request
\* returns is the sum, at the time of the request, of the amounts of the caller's
\* expense transactions of the budget's category, month and year, whatever
\* current_spent the budget had stored before the request.
C6_ReturnedSpentIsLedgerSum ==
    \A r \in BudgetReads :
        /\ r.current_spent = LedgerSum(last.caller, r.category, r.month, r.year)
        /\ \E b \in budgets : b.id = r.id /\ b.current_spent = r.current_spent

\* C6's case: a fetch returned the sum of two transactions for a budget whose
\* stored current_spent was another value when the request came.
C6_Witness ==
    /\ last.op = "get_budget"
    /\ last.status = 200
    /\ last.body.current_spent = 20
    /\ \E p \in history.stored : p[1] = last.id /\ p[2] # last.body.current_spent

\* C7: a fetch of a budget that directly follows a fetch of the same budget by the
\* same caller returns the current_spent and the status the first one returned,
\* and leaves the stored budgets as they were.
C7_RefetchReturnsTheSame ==
    [][history'.refetch =>
          /\ last'.body.current_spent = last.body.current_spent
          /\ last'.body.status = last.body.status
          /\ budgets' = budgets]_vars

\* C7's case: the second of two fetches in a row, of a budget with expenses.
C7_Witness ==
    /\ history.refetch
    /\ last.op = "get_budget"
    /\ last.status = 200
    /\ last.body.current_spent = 20

----------------------------------------------------------------------------
(* The budget specification: both users create, update and delete budgets, *)
(* one request after the other.                                            *)

BudgetIds == 1..(MaxBudgets + 1)

InitBudgets ==
    /\ SignedIn
    /\ transactions = {}
    /\ budgets = {}
    /\ goals = {}

NextBudgets ==
    \/ \E s \in sessions, c \in {Food, "Other"}, m \in BudgetMonths, y \in BudgetYears :
          create_budget(s, c, 100, m, y)
    \/ \E s \in sessions, id \in BudgetIds, upd \in BudgetUpdates :
          update_budget(s, id, upd)
    \/ \E s \in sessions, id \in BudgetIds : delete_budget(s, id)
    \/ \E s \in sessions, id \in BudgetIds : get_budget(s, id)

SpecBudgets == InitBudgets /\ [][NextBudgets]_vars

\* C4: after any sequence of budget create, update and delete requests made one
\* after the other, no two budgets of one user have the same category, month and
\* year.
C4_OneBudgetPerTuple ==
    \A b1 \in budgets : \A b2 \in budgets :
        (/\ b1.user_id = b2.user_id
         /\ b1.category = b2.category
         /\ b1.month = b2.month
         /\ b1.year = b2.year) => b1.id = b2.id

----------------------------------------------------------------------------
(* The budget-response specification: _format_budget_response on a budget   *)
(* of Alice's whose current_spent and monthly_limit range over the amounts  *)
(* and limits below.  The initial state is the one after Alice recorded one *)
(* expense and created a budget for its category and month.                 *)

MaxSpent == 101
FormatSpent == (-2..MaxSpent) \cup {19999, 20000}
FormatLimits == {3, 100, 25000}

InitFormat ==
    /\ SignedIn
    /\ db_sql
    /\ goals = {}
    /\ \E a \in FormatSpent, l \in FormatLimits :
          /\ transactions = {[id |-> 1, user_id |-> Alice.id, amount |-> a,
                              category |-> Food, transaction_type |-> "expense",
                              date |-> January]}
          /\ budgets = {[id |-> 1, user_id |-> Alice.id, category |-> Food,
                         monthly_limit |-> l, current_spent |-> a,
                         month |-> 1, year |-> 2025]}

NextFormat ==
    \/ get_budget(SessionOf(Alice), 1)
    \/ \E m \in Optional({1}) : get_budgets(SessionOf(Alice), m, Absent)
    \/ \E l \in FormatLimits :
          update_budget(SessionOf(Alice), 1, BudgetUpdate(Some(l), Absent, Absent))

SpecFormat == InitFormat /\ [][NextFormat]_vars

\* The budget responses the last request returned.
BudgetResponses ==
    IF last.status \notin {200, 201} THEN {}
    ELSE IF last.op \in {"get_budget", "update_budget", "create_budget"}
    THEN {last.body}
    ELSE IF last.op = "get_budgets" THEN last.body.budgets
    ELSE {}

\* C5 as stated: in every budget response percentage_used (hundredths of a
\* percent) is current_spent / monthly_limit * 100, and the status is
\* "over_budget" exactly when percentage_used >= 100, "near_limit" exactly when
\* 80 <= percentage_used < 100, "under_budget" otherwise.
C5_StatusFromReportedPercentage ==
    \A r \in BudgetResponses :
        /\ r.percentage_used * r.monthly_limit = r.current_spent * 10000
        /\ r.status = "over_budget" <=> r.percentage_used >= 10000
        /\ r.status = "near_limit" <=>
               (8000 <= r.percentage_used /\ r.percentage_used < 10000)
        /\ r.status \in {"over_budget", "near_limit", "under_budget"}

\* C5 amended: percentage_used is current_spent / monthly_limit * 100 rounded to
\* two decimals (at most half a hundredth away), and the status follows the
\* percentage before rounding: "over_budget" exactly when current_spent /
\* monthly_limit * 100 >= 100, "near_limit" exactly when it is >= 80 and < 100,
\* "under_budget" otherwise; so 79% is under_budget, 80% near_limit, 100%
\* over_budget.
C5_StatusFromExactPercentage ==
    \A r \in BudgetResponses :
        LET d == r.percentage_used * r.monthly_limit - r.current_spent * 10000
        IN /\ r.monthly_limit > 0
           /\ 2 * d <= r.monthly_limit /\ -2 * d <= r.monthly_limit
           /\ r.status = "over_budget" <=> r.current_spent >= r.monthly_limit
           /\ r.status = "near_limit" <=>
                  (/\ 5 * r.current_spent >= 4 * r.monthly_limit
                   /\ r.current_spent < r.monthly_limit)
           /\ r.status \in {"over_budget", "near_limit", "under_budget"}
           /\ (r.current_spent * 100 = 79 * r.monthly_limit) => r.status = "under_budget"
           /\ (r.current_spent * 100 = 80 * r.monthly_limit) => r.status = "near_limit"
           /\ (r.current_spent * 100 = 100 * r.monthly_limit) => r.status = "over_budget"

\* C5's case: the three thresholds of the claim, each met by a response.
C5_Witness ==
    /\ last.op = "get_budgets"
    /\ last.status = 200
    /\ \E r \in last.body.budgets :
          /\ r.monthly_limit = 100
          /\ \/ r.current_spent = 79 /\ r.status = "under_budget"
             \/ r.current_spent = 80 /\ r.status = "near_limit"
             \/ r.current_spent = 100 /\ r.status = "over_budget"

----------------------------------------------------------------------------
(* The goal specification: both users create, update, fund and delete goals *)
(* while the days pass.                                                     *)

GoalTargets == {0, 100}
GoalCurrents == {0, 100, 150}
GoalDates == 0..(MaxDay + 1)
Contributions == {0, 50, 100}
GoalIds == 1..(MaxGoals + 1)

GoalUpdate(target_amount, current_amount, target_date, is_completed) ==
    [target_amount |-> target_amount, current_amount |-> current_amount,
     target_date |-> target_date, is_completed |-> is_completed]

GoalUpdates == {GoalUpdate(Some(0), Absent, Absent, Absent),
                GoalUpdate(Absent, Some(50), Absent, Absent),
                GoalUpdate(Some(200), Absent, Some(1), Absent),
                GoalUpdate(Absent, Absent, Absent, Some(FALSE)),
                GoalUpdate(Absent, Absent, Absent, Some(TRUE))}

InitGoals ==
    /\ SignedIn
    /\ transactions = {}
    /\ budgets = {}
    /\ goals = {}

NextGoals ==
    \/ \E s \in sessions, t \in GoalTargets, c \in GoalCurrents, d \in GoalDates :
          create_goal(s, t, c, d)
    \/ \E s \in sessions, id \in GoalIds : get_goal(s, id)
    \/ \E s \in sessions, id \in GoalIds, upd \in GoalUpdates : update_goal(s, id, upd)
    \/ \E s \in sessions, id \in GoalIds, a \in Contributions :
          contribute_to_goal(s, id, a)
    \/ \E s \in sessions, id \in GoalIds : delete_goal(s, id)
    \/ next_day

SpecGoals == InitGoals /\ [][NextGoals]_vars

\* C8: a create-goal request with current_amount > target_amount, or with a
\* target_date of today or earlier, is answered with a client error (4xx) and
\* creates no goal: no step that answers otherwise, or changes the goals, is the
\* step of such a request.
C8_InvalidGoalRejected ==
    [][\A s \in sessions, t \in GoalTargets, c \in GoalCurrents, d \in GoalDates :
          (/\ last'.op = "create_goal"
           /\ c > t \/ d <= today
           /\ ~(last'.status \in 400..499 /\ goals' = goals))
          => ~create_goal(s, t, c, d)]_vars

\* C8's case: a goal with a future date was refused for its current_amount, after
\* the days had moved on.
C8_Witness ==
    /\ last.op = "create_goal"
    /\ last.status = 400
    /\ last.detail = "Current amount cannot exceed target amount"
    /\ today > 0
    /\ goals = {}

\* The caller's goal with the given id, before the step.
GoalOf(s, id) == CHOOSE g \in goals : g.id = id /\ g.user_id = s.user_id

\* C9: a contribution of a positive amount to a goal of the caller's that is not
\* completed adds the amount to current_amount and sets is_completed exactly when
\* the new current_amount is >= target_amount; a contribution to a completed goal,
\* such as the next one after that, is rejected and leaves the goals unchanged.
C9_ContributeAddsAndCompletes ==
    [][\A s \in sessions, id \in GoalIds, a \in Contributions :
          (/\ last'.op = "contribute"
           /\ a > 0
           /\ \E g \in goals : g.id = id /\ g.user_id = s.user_id
           /\ contribute_to_goal(s, id, a))
          => IF GoalOf(s, id).is_completed
             THEN /\ last'.status = 400
                  /\ goals' = goals
             ELSE /\ last'.status = 200
                  /\ goals' = (goals \ {GoalOf(s, id)}) \cup
                       {[GoalOf(s, id) EXCEPT
                           !.current_amount = @ + a,
                           !.is_completed =
                               (GoalOf(s, id).current_amount + a
                                    >= GoalOf(s, id).target_amount)]}
                  /\ last'.body.current_amount = GoalOf(s, id).current_amount + a
                  /\ last'.body.is_completed =
                         (last'.body.current_amount >= last'.body.target_amount)]_vars

\* C9's case: a contribution brought a goal exactly to its target and completed it.
C9_Witness ==
    /\ last.op = "contribute"
    /\ last.status = 200
    /\ last.body.current_amount = last.body.target_amount
    /\ last.body.is_completed
    /\ \E g \in goals : g.id = last.id /\ g.is_completed

----------------------------------------------------------------------------
(* The access specification: Alice stores a transaction, a budget and a     *)
(* goal, and both users address every id by every by-id request.            *)

AccessTxUpdates == {TxUpdate(Some(75), Absent, Absent, Absent)}
AccessBudgetUpdates == {BudgetUpdate(Some(200), Absent, Absent)}
AccessGoalUpdates == {GoalUpdate(Some(200), Absent, Absent, Absent)}
AccessContributions == {50}

InitAccess ==
    /\ SignedIn
    /\ transactions = {}
    /\ budgets = {}
    /\ goals = {}

NextAccess ==
    \/ create_transaction(SessionOf(Alice), 50, "income", Some(January), Salary)
    \/ \E s \in sessions, id \in TransactionIds : get_transaction(s, id)
    \/ \E s \in sessions, id \in TransactionIds, upd \in AccessTxUpdates :
          update_transaction(s, id, upd)
    \/ \E s \in sessions, id \in TransactionIds : delete_transaction(s, id)
    \/ create_budget(SessionOf(Alice), Food, 100, 1, 2025)
    \/ \E s \in sessions, id \in BudgetIds : get_budget(s, id)
    \/ \E s \in sessions, id \in BudgetIds, upd \in AccessBudgetUpdates :
          update_budget(s, id, upd)
    \/ \E s \in sessions, id \in BudgetIds : delete_budget(s, id)
    \/ create_goal(SessionOf(Alice), 100, 0, MaxDay + 1)
    \/ \E s \in sessions, id \in GoalIds : get_goal(s, id)
    \/ \E s \in sessions, id \in GoalIds, upd \in AccessGoalUpdates :
          update_goal(s, id, upd)
    \/ \E s \in sessions, id \in GoalIds, a \in AccessContributions :
          contribute_to_goal(s, id, a)
    \/ \E s \in sessions, id \in GoalIds : delete_goal(s, id)

SpecAccess == InitAccess /\ [][NextAccess]_vars

\* The id names no row of the caller's: a row of another user, or no row at all.
NotOwned(rows, s, id) == ~ \E r \in rows : r.id = id /\ r.user_id = s.user_id

\* The answer to a by-id request on a resource that does not exist.
NotFound(op, s, id, detail) ==
    /\ last' = Error(op, s.user_id, id, 404, detail)
    /\ UNCHANGED <<transactions, budgets, goals>>

\* C3: every get, update, delete or contribute request by id on a transaction,
\* budget or goal that the caller does not own -- whether it belongs to another user
\* or does not exist -- gets one and the same 404 response, which depends on the
\* request only, and leaves every stored resource unchanged.
C3_ForeignIsMissing ==
    [][/\ \A s \in sessions, id \in TransactionIds :
            NotOwned(transactions, s, id) =>
               /\ (last'.op = "get_transaction" /\ get_transaction(s, id))
                    => NotFound("get_transaction", s, id, "Transaction not found")
               /\ (last'.op = "delete_transaction" /\ delete_transaction(s, id))
                    => NotFound("delete_transaction", s, id, "Transaction not found")
               /\ \A upd \in AccessTxUpdates :
                    (last'.op = "update_transaction" /\ update_transaction(s, id, upd))
                    => NotFound("update_transaction", s, id, "Transaction not found")
       /\ \A s \in sessions, id \in BudgetIds :
            NotOwned(budgets, s, id) =>
               /\ (last'.op = "get_budget" /\ get_budget(s, id))
                    => NotFound("get_budget", s, id, "Budget not found")
               /\ (last'.op = "delete_budget" /\ delete_budget(s, id))
                    => NotFound("delete_budget", s, id, "Budget not found")
               /\ \A upd \in AccessBudgetUpdates :
                    (last'.op = "update_budget" /\ update_budget(s, id, upd))
                    => NotFound("update_budget", s, id, "Budget not found")
       /\ \A s \in sessions, id \in GoalIds :
            NotOwned(goals, s, id) =>
               /\ (last'.op = "get_goal" /\ get_goal(s, id))
                    => NotFound("get_goal", s, id, "Goal not found")
               /\ (last'.op = "delete_goal" /\ delete_goal(s, id))
                    => NotFound("delete_goal", s, id, "Goal not found")
               /\ \A upd \in AccessGoalUpdates :
                    (last'.op = "update_goal" /\ update_goal(s, id, upd))
                    => NotFound("update_goal", s, id, "Goal not found")
               /\ \A a \in AccessContributions :
                    (last'.op = "contribute" /\ contribute_to_goal(s, id, a))
                    => NotFound("contribute", s, id, "Goal not found")]_vars

\* C3's case: a contribution to another user's goal was answered with 404 while the
\* goal, a budget and a transaction of the other user's are all stored.
C3_Witness ==
    /\ last.op = "contribute"
    /\ last.status = 404
    /\ \E g \in goals : g.id = last.id /\ g.user_id # last.caller
                        /\ g.current_amount = 0
    /\ \E b \in budgets : b.user_id # last.caller
    /\ \E t \in transactions : t.user_id # last.caller

----------------------------------------------------------------------------
(* The analytics specification: both users record, change and delete        *)
(* transactions and ask for their summaries.                                *)

AnalyticsCreates == {TxRequest(100, "income", Absent, Salary),
                     TxRequest(40, "expense", Absent, Food),
                     TxRequest(-30, "expense", Absent, Food),
                     TxRequest(40, "expense", Absent, "Other")}

AnalyticsUpdates == {TxUpdate(Some(-30), Absent, Absent, Absent),
                     TxUpdate(Absent, Absent, Some("income"), Absent)}

InitAnalytics ==
    /\ SignedIn
    /\ transactions = {}
    /\ budgets = {}
    /\ goals = {}

NextAnalytics ==
    \/ \E s \in sessions, r \in AnalyticsCreates :
          create_transaction(s, r.amount, r.transaction_type, r.date, r.category)
    \/ \E s \in sessions, id \in TransactionIds, upd \in AnalyticsUpdates :
          update_transaction(s, id, upd)
    \/ \E s \in sessions, id \in TransactionIds : delete_transaction(s, id)
    \/ \E s \in sessions : get_analytics_summary(s)

SpecAnalytics == InitAnalytics /\ [][NextAnalytics]_vars

\* What the transaction with the given id adds to a total of user `user_id`: its
\* amount (absolute or signed) when it is that user's and of that type, else 0.
Share(id, user_id, transaction_type, absolute) ==
    IF \E t \in transactions : /\ t.id = id
                               /\ t.user_id = user_id
                               /\ t.transaction_type = transaction_type
    THEN LET t == CHOOSE t \in transactions : t.id = id
         IN IF absolute THEN Abs(t.amount) ELSE t.amount
    ELSE 0

\* The total of a user's transactions of a type, added up id by id, up to id k.
RECURSIVE TotalUpTo(_, _, _, _)
TotalUpTo(k, user_id, transaction_type, absolute) ==
    IF k = 0 THEN 0
    ELSE TotalUpTo(k - 1, user_id, transaction_type, absolute)
         + Share(k, user_id, transaction_type, absolute)

ExpectedIncome(user_id) == TotalUpTo(MaxTransactions, user_id, "income", FALSE)
ExpectedExpenses(user_id) == TotalUpTo(MaxTransactions, user_id, "expense", TRUE)

\* C10: the summary a user gets reports total_income = the sum of the amounts of
\* that user's income transactions, total_expenses = the sum of the absolute
\* amounts of that user's expense transactions, net_savings = total_income -
\* total_expenses, savings_rate = net_savings / total_income * 100 when
\* total_income > 0 and 0 otherwise, and a category breakdown whose values sum to
\* total_expenses; no transaction of another user contributes.
C10_SummaryTotals ==
    (last.op = "summary" /\ last.status = 200) =>
        LET income == ExpectedIncome(last.caller)
            expenses == ExpectedExpenses(last.caller)
            breakdown == last.body.category_breakdown
        IN /\ last.body.total_income = income
           /\ last.body.total_expenses = expenses
           /\ last.body.net_savings = income - expenses
           /\ IF income > 0
              THEN /\ last.body.savings_rate.num = (income - expenses) * 100
                   /\ last.body.savings_rate.den = income
              ELSE last.body.savings_rate.num = 0
           /\ SumOver(DOMAIN breakdown, breakdown) = expenses

\* C10's case: a user whose only transaction is an expense of negative amount got a
\* summary while the other user has a transaction as well.
C10_Witness ==
    /\ last.op = "summary"
    /\ last.status = 200
    /\ last.body.total_expenses = 30
    /\ \E t \in transactions : t.user_id = last.caller /\ t.amount = -30
    /\ \E t \in transactions : t.user_id # last.caller /\ t.amount > 0

----------------------------------------------------------------------------
(* Transaction statistics (routes/transactions.py) *)

\* A (year, month) date as a number that orders dates.
DateKey(d) == d.year * 12 + d.month

\* A faulty variant of InDateRange: the end of the range left out.
InDateRange_open_end(t, date_from, date_to) ==
    /\ date_from # Absent => DateKey(t.date) >= DateKey(Val(date_from))
    /\ date_to # Absent => DateKey(t.date) < DateKey(Val(date_to))

\* Transaction.date >= datetime.combine(date_from, min.time()) and
\* Transaction.date <= datetime.combine(date_to, max.time()), each applied only
\* when the bound is given: both ends are inside the range.
InDateRange(t, date_from, date_to) ==
    /\ date_from # Absent => DateKey(t.date) >= DateKey(Val(date_from))
    /\ date_to # Absent => DateKey(t.date) <= DateKey(Val(date_to))

\* The rows the category-statistics query groups.
StatsRows(user_id, transaction_type, date_from, date_to) ==
    {t \in transactions :
        /\ t.user_id = user_id
        /\ t.transaction_type = transaction_type
        /\ InDateRange(t, date_from, date_to)}

\* The date a response echoes: isoformat() of the bound, null when it is absent.
IsoOrNone(d) == d

\* GET /transactions/stats/category.  A percentage is in hundredths of a percent
\* (round(x, 2)); an average is kept as the fraction total / count.
get_category_statistics(s, date_from, date_to, transaction_type) ==
    /\ UNCHANGED <<db_sql, pending>>
    /\ history' = NoHistory
    /\ UNCHANGED <<users, sessions, transactions, budgets, goals, today>>
    /\ LET current_user == get_current_user(s.access_token)
           rows == StatsRows(current_user.id, transaction_type, date_from, date_to)
           results == {t.category : t \in rows}
           total(c) == LET of_c == {t \in rows : t.category = c}
                       IN SumOver(of_c, [t \in of_c |-> t.amount])
           count(c) == Cardinality({t \in rows : t.category = c})
           total_amount == SumOver(results, [c \in results |-> total(c)])
       IN IF current_user = NoUser
          THEN last' = Unauthorized("category_stats")
          ELSE IF transaction_type \notin {"income", "expense"}
          THEN last' = Error("category_stats", s.user_id, 0, 400,
                             "transaction_type must be 'income' or 'expense'")
          ELSE IF ~db_sql
          THEN last' = InternalServerError("category_stats", s.user_id, 0)
          ELSE last' = Ok("category_stats", s.user_id, 0, 200,
                 [transaction_type |-> transaction_type,
                  total_amount |-> total_amount,
                  categories |->
                      [c \in results |->
                          [total |-> total(c),
                           count |-> count(c),
                           average |-> [num |-> total(c), den |-> count(c)],
                           percentage |-> IF total_amount > 0
                                          THEN RoundDiv(total(c) * 10000, total_amount)
                                          ELSE 0]],
                  date_from |-> IsoOrNone(date_from),
                  date_to |-> IsoOrNone(date_to)])

----------------------------------------------------------------------------
(* The statistics specification: both users ask for category statistics on  *)
(* a ledger of three transactions, the state after three were recorded.     *)

MaxStatsTransactions == 3
StatsIds == 1..MaxStatsTransactions
StatsAmounts == {10, -30}
StatsTypes == {"expense", "income"}
StatsDates == {January, February}

\* The ledgers: the first transaction is Alice's expense of 10 for food in January; the others
\* vary in owner, category and month around it.
StatsRow(id) ==
    {t \in [id : {id}, user_id : {Alice.id, Bob.id}, amount : StatsAmounts,
            category : {Food, "Other", "Shopping"},
            transaction_type : StatsTypes, date : StatsDates] :
        /\ id = 1 => (/\ t.user_id = Alice.id /\ t.category = Food
                      /\ t.date = January /\ t.amount = 10
                      /\ t.transaction_type = "expense")
        /\ id = 2 => (t.user_id = Alice.id /\ t.category # "Shopping")
        /\ id >= 3 => (t.category # "Other" /\ t.date = February)}

StatsLedgers ==
    {{f[i] : i \in StatsIds} :
        f \in {g \in [StatsIds -> UNION {StatsRow(i) : i \in StatsIds}] :
                  \A i \in StatsIds : g[i] \in StatsRow(i)}}

InitStats ==
    /\ SignedIn
    /\ db_sql
    /\ transactions \in StatsLedgers
    /\ budgets = {}
    /\ goals = {}

NextStats ==
    \E s \in sessions, f \in Optional(StatsDates), t \in Optional(StatsDates),
       ty \in StatsTypes \cup {"transfer"} :
          get_category_statistics(s, f, t, ty)

SpecStats == InitStats /\ [][NextStats]_vars

\* What the transaction with the given id adds to a category total of the last
\* statistics request: its amount when it is the caller's, of the requested type
\* and category, and dated inside the requested range, else 0.
StatsShare(id, c) ==
    LET in_range(t) ==
            /\ last.body.date_from # Absent
                  => DateKey(Val(last.body.date_from)) <= DateKey(t.date)
            /\ last.body.date_to # Absent
                  => DateKey(t.date) <= DateKey(Val(last.body.date_to))
        matching == {t \in transactions :
                        /\ t.id = id
                        /\ t.user_id = last.caller
                        /\ t.transaction_type = last.body.transaction_type
                        /\ t.category = c
                        /\ in_range(t)}
    IN IF matching = {} THEN 0 ELSE (CHOOSE t \in matching : TRUE).amount

RECURSIVE StatsTotalUpTo(_, _)
StatsTotalUpTo(k, c) ==
    IF k = 0 THEN 0 ELSE StatsTotalUpTo(k - 1, c) + StatsShare(k, c)

\* C11: each category returned by a category-statistics request has as total the
\* sum of the amounts of the caller's transactions of the requested type and that
\* category dated inside the inclusive range, and when total_amount > 0 the
\* returned percentages sum to 100 up to the rounding of each to two decimals.
C11_CategoryTotalsAndPercentages ==
    (last.op = "category_stats" /\ last.status = 200) =>
        LET stats == last.body.categories
            n == Cardinality(DOMAIN stats)
            percentages == SumOver(DOMAIN stats, [c \in DOMAIN stats |-> stats[c].percentage])
        IN /\ \A c \in DOMAIN stats :
                 stats[c].total = StatsTotalUpTo(MaxStatsTransactions, c)
           /\ last.body.total_amount > 0
                 => 2 * Abs(percentages - 10000) <= n

\* C11's case: three categories of equal totals, the last dated at the end of the
\* requested range, whose percentages are 33.33 each.
C11_Witness ==
    /\ last.op = "category_stats"
    /\ last.status = 200
    /\ last.body.date_to = Some(February)
    /\ Cardinality(DOMAIN last.body.categories) = 3
    /\ \A c \in DOMAIN last.body.categories :
          last.body.categories[c].percentage = 3333

----------------------------------------------------------------------------
(* The expense categorizer (nlp_service.py).  A text is the sequence of its *)
(* characters; a category name is a string, spelled out by Spell.           *)

\* ExpenseCategorizer.CATEGORIES in its order.
CATEGORY_LIST ==
    <<"Food & Dining",
      "Transportation",
      "Shopping",
      "Entertainment",
      "Bills & Utilities",
      "Healthcare",
      "Education",
      "Travel",
      "Personal Care",
      "Groceries",
      "Income",
      "Other">>

\* The characters of a category name.
Spell(c) ==
    CASE c = "Food & Dining" ->
           <<"F", "o", "o", "d", " ", "&", " ", "D", "i", "n", "i", "n", "g">>
      [] c = "Transportation" ->
           <<"T", "r", "a", "n", "s", "p", "o", "r", "t", "a", "t", "i", "o", "n">>
      [] c = "Shopping" ->
           <<"S", "h", "o", "p", "p", "i", "n", "g">>
      [] c = "Entertainment" ->
           <<"E", "n", "t", "e", "r", "t", "a", "i", "n", "m", "e", "n", "t">>
      [] c = "Bills & Utilities" ->
           <<"B", "i", "l", "l", "s", " ", "&", " ", "U", "t", "i", "l", "i", "t", "i", "e", "s">>
      [] c = "Healthcare" ->
           <<"H", "e", "a", "l", "t", "h", "c", "a", "r", "e">>
      [] c = "Education" ->
           <<"E", "d", "u", "c", "a", "t", "i", "o", "n">>
      [] c = "Travel" ->
           <<"T", "r", "a", "v", "e", "l">>
      [] c = "Personal Care" ->
           <<"P", "e", "r", "s", "o", "n", "a", "l", " ", "C", "a", "r", "e">>
      [] c = "Groceries" ->
           <<"G", "r", "o", "c", "e", "r", "i", "e", "s">>
      [] c = "Income" ->
           <<"I", "n", "c", "o", "m", "e">>
      [] c = "Other" ->
           <<"O", "t", "h", "e", "r">>

Upper == <<"A", "B", "C", "D", "E", "F", "G", "H", "I", "J", "K", "L", "M",
           "N", "O", "P", "Q", "R", "S", "T", "U", "V", "W", "X", "Y", "Z">>
Lower == <<"a", "b", "c", "d", "e", "f", "g", "h", "i", "j", "k", "l", "m",
           "n", "o", "p", "q", "r", "s", "t", "u", "v", "w", "x", "y", "z">>

\* str.lower()
lower(text) ==
    [i \in 1..Len(text) |->
        IF \E k \in 1..Len(Upper) : Upper[k] = text[i]
        THEN Lower[CHOOSE k \in 1..Len(Upper) : Upper[k] = text[i]]
        ELSE text[i]]

Whitespace == {" ", "\n", "\t"}

\* str.strip(): the text without its leading and trailing whitespace.
strip(text) ==
    LET inked == {i \in 1..Len(text) : text[i] \notin Whitespace}
    IN IF inked = {} THEN <<>>
       ELSE SubSeq(text, CHOOSE i \in inked : \A j \in inked : i <= j,
                         CHOOSE i \in inked : \A j \in inked : i >= j)

\* `part in text` on strings; the empty string is in every string.
Contains(text, part) ==
    \E i \in 0..(Len(text) - Len(part)) : SubSeq(text, i + 1, i + Len(part)) = part

\* A faulty variant of DefaultCategory: a name outside the list.
DefaultCategory_unlisted == "Uncategorized"

\* return "Other"
DefaultCategory == "Other"

\* valid_cat.lower() of every name of the list.
valid_cat_lower == [k \in 1..Len(CATEGORY_LIST) |-> lower(Spell(CATEGORY_LIST[k]))]

\* The loop over CATEGORIES: the first name that contains the reply or is
\* contained in it, both in lower case; "Other" when there is none.
ClosestMatch(category) ==
    LET category_lower == lower(category)
        close == {k \in 1..Len(CATEGORY_LIST) :
                    \/ Contains(category_lower, valid_cat_lower[k])
                    \/ Contains(valid_cat_lower[k], category_lower)}
    IN IF close = {} THEN DefaultCategory
       ELSE CATEGORY_LIST[CHOOSE k \in close : \A j \in close : k <= j]

\* The value categorize returns.  amount is Absent when it is not a number, so that
\* formatting it raises; reply is Absent when chain.invoke raises.
Categorized(description, amount, reply) ==
    IF amount = Absent \/ reply = Absent
    THEN DefaultCategory
    ELSE LET category == strip(Val(reply))
         IN IF \E k \in 1..Len(CATEGORY_LIST) : Spell(CATEGORY_LIST[k]) = category
            THEN CATEGORY_LIST[CHOOSE k \in 1..Len(CATEGORY_LIST) :
                                  Spell(CATEGORY_LIST[k]) = category]
            ELSE ClosestMatch(category)

\* ExpenseCategorizer.categorize(description, amount)
categorize(description, amount, reply) ==
    /\ UNCHANGED <<db_sql, pending>>
    /\ history' = NoHistory
    /\ UNCHANGED <<users, sessions, transactions, budgets, goals, today>>
    /\ last' = Ok("categorize", 0, 0, 200,
                  [description |-> description, amount |-> amount, reply |-> reply,
                   category |-> Categorized(description, amount, reply)])

----------------------------------------------------------------------------
(* The categorizer specification: categorize on descriptions, amounts and   *)
(* model replies.                                                           *)

Descriptions == {"Starbucks Coffee", ""}
CategorizerAmounts == Optional({575})

\* The replies: each category name as it is, in lower case, padded with
\* whitespace and inside a sentence; and replies that are no category name.
Replies ==
    UNION {{Spell(CATEGORY_LIST[k]),
            lower(Spell(CATEGORY_LIST[k])),
            <<" ">> \o Spell(CATEGORY_LIST[k]) \o <<"\n">>,
            <<"I", "t", " ", "i", "s", " ">> \o Spell(CATEGORY_LIST[k]) \o <<".">>} :
           k \in 1..Len(CATEGORY_LIST)}
    \cup {<<>>, <<" ">>, <<"U", "n", "k", "n", "o", "w", "n">>, <<"e", "r">>, <<"F", "O", "O", "D">>, <<"R", "e", "n", "t", " ", "/", " ", "O", "t", "h", "e", "r", " ", "i", "n", "c", "o", "m", "e">>, <<"4", "2">>}

InitCategorizer ==
    /\ SignedIn
    /\ transactions = {}
    /\ budgets = {}
    /\ goals = {}

NextCategorizer ==
    \E d \in Descriptions, a \in CategorizerAmounts, r \in Optional(Replies) :
        categorize(d, a, r)

SpecCategorizer == InitCategorizer /\ [][NextCategorizer]_vars

\* C12: categorize returns one of the 12 canonical category names for every
\* description, amount and model reply, the empty and the non-matching ones
\* included, and returns "Other" whenever the model call fails.
C12_CategorizeIsCanonical ==
    last.op = "categorize" =>
        /\ \E k \in 1..12 : last.body.category = CATEGORY_LIST[k]
        /\ last.body.category \in CATEGORIES
        /\ last.body.reply = Absent => last.body.category = "Other"

\* C12's case: a reply that names no category and is near none was answered "Other".
C12_Witness ==
    /\ last.op = "categorize"
    /\ last.body.reply = Some(<<"U", "n", "k", "n", "o", "w", "n">>)
    /\ last.body.category = "Other"

----------------------------------------------------------------------------
(* The statistical forecast (routes/ai.py).  A data frame is the sequence   *)
(* of its rows [ds, y] sorted by ds, a day number; a mean is kept as the    *)
(* exact fraction it is, so a predicted value is a fraction num / den.      *)

Max(a, b) == IF a >= b THEN a ELSE b

\* df['y'] summed over the rows from..to.
RECURSIVE SumY(_, _, _)
SumY(df, from, to) ==
    IF from > to THEN 0 ELSE df[from].y + SumY(df, from + 1, to)

\* A faulty variant of Confidence: no floor.
Confidence_unfloored(i) == 95 - i

\* max(70, 95 - i)
Confidence(i) == Max(70, 95 - i)

\* statistical_forecast_fallback(df, periods)
ForecastFallback(df, periods) ==
    IF Len(df) = 0 THEN <<>>
    ELSE LET n == Len(df)
             \* recent_avg = recent_sum / recent_n
             recent_n == IF n >= 30 THEN 30 ELSE n
             recent_sum == SumY(df, n - recent_n + 1, n)
             \* recent_trend = trend_num / trend_den
             trend_num == IF n >= 7 THEN SumY(df, n - 6, n) - SumY(df, 1, 7) ELSE 0
             trend_den == 7 * n
             last_date == df[n].ds
             \* predicted_value = recent_avg + recent_trend * i, over den
             den == recent_n * trend_den
             predicted_value(i) == recent_sum * trend_den + trend_num * i * recent_n
         IN [i \in 1..periods |->
                [ds |-> last_date + i,
                 yhat |-> [num |-> Max(0, predicted_value(i)), den |-> den],
                 yhat_lower |-> [num |-> Max(0, predicted_value(i) * 85),
                                 den |-> den * 100],
                 yhat_upper |-> [num |-> predicted_value(i) * 115, den |-> den * 100],
                 confidence |-> Confidence(i)]]

\* A call of statistical_forecast_fallback that has not returned yet.
ForecastCall(df, periods) ==
    [op |-> "call statistical_forecast_fallback", caller |-> 0, id |-> 0,
     status |-> 0, detail |-> "", body |-> [df |-> df, periods |-> periods]]

\* The call returns.
statistical_forecast_fallback ==
    /\ last.op = "call statistical_forecast_fallback"
    /\ UNCHANGED <<db_sql, pending>>
    /\ history' = NoHistory
    /\ UNCHANGED <<users, sessions, transactions, budgets, goals, today>>
    /\ last' = Ok("statistical_forecast_fallback", 0, 0, 200,
                  [df |-> last.body.df,
                   periods |-> last.body.periods,
                   predictions |-> ForecastFallback(last.body.df, last.body.periods)])

----------------------------------------------------------------------------
(* The forecast specification: statistical_forecast_fallback on daily       *)
(* series of up to MaxSeries days and periods of 1 to MaxMonths months.     *)

MaxSeries == 31
MaxMonths == 12
SeriesShapes == {"flat", "rising", "falling"}

\* A daily series of n days on the day numbers 1..n.
Series(n, shape) ==
    [i \in 1..n |->
        [ds |-> i,
         y |-> CASE shape = "flat" -> 10
                 [] shape = "rising" -> 3 * i
                 [] shape = "falling" -> 3 * (n - i)]]

InitForecast ==
    /\ users = {Alice, Bob}
    /\ sessions = {SessionOf(u) : u \in {Alice, Bob}}
    /\ transactions = {}
    /\ budgets = {}
    /\ goals = {}
    /\ today = 0
    /\ db_sql \in BOOLEAN
    /\ pending = {}
    /\ history = NoHistory
    /\ \E n \in 0..MaxSeries, shape \in SeriesShapes, months \in 1..MaxMonths :
          last = ForecastCall(Series(n, shape), months * 30)

NextForecast == statistical_forecast_fallback

SpecForecast == InitForecast /\ [][NextForecast]_vars

\* C13: for every non-empty daily series and every months in 1..12,
\* statistical_forecast_fallback with periods = months * 30 returns exactly
\* months * 30 daily predictions whose confidence never rises from one day to the
\* next and is never below 70.
C13_ForecastLengthAndConfidence ==
    (last.op = "statistical_forecast_fallback" /\ Len(last.body.df) > 0) =>
        LET predictions == last.body.predictions
        IN /\ Len(predictions) = last.body.periods
           /\ \A i \in 1..(Len(predictions) - 1) :
                 predictions[i].confidence >= predictions[i + 1].confidence
           /\ \A i \in 1..Len(predictions) : predictions[i].confidence >= 70

\* C13's case: a forecast of twelve months on a series of thirty days or more, whose
\* confidence falls from 94 to the floor of 70.
C13_Witness ==
    /\ last.op = "statistical_forecast_fallback"
    /\ Len(last.body.df) >= 30
    /\ last.body.periods = 360
    /\ Len(last.body.predictions) = 360
    /\ last.body.predictions[1].confidence = 94
    /\ last.body.predictions[360].confidence = 70

----------------------------------------------------------------------------
(* Insights and tips (routes/ai.py).  A model reply is the sequence of its  *)
(* tokens: the brackets and the comma of JSON, "INSIGHT" for an object with *)
(* the four string fields of schemas.Insight, "TIP" for an object with the  *)
(* four fields the tips prompt asks for, "42" for a number and "text" for   *)
(* words that are no JSON.  A failed model call has no reply.               *)

JsonTokens == {"[", "]", ",", "INSIGHT", "TIP", "42", "text"}

JsonArray(items) == [kind |-> "array", name |-> "", items |-> items]
JsonObject(name) == [kind |-> "object", name |-> name, items |-> <<>>]
JsonNumber(name) == [kind |-> "number", name |-> name, items |-> <<>>]

ParseFailure == [ok |-> FALSE, value |-> JsonNumber("0"), next |-> 0]
Parsed(value, next) == [ok |-> TRUE, value |-> value, next |-> next]

\* json.loads: the value that starts at token i, and the token after it.
RECURSIVE ParseValue(_, _)
RECURSIVE ParseElements(_, _, _)
ParseValue(content, i) ==
    IF i > Len(content) THEN ParseFailure
    ELSE CASE content[i] = "INSIGHT" -> Parsed(JsonObject("insight"), i + 1)
           [] content[i] = "TIP" -> Parsed(JsonObject("tip"), i + 1)
           [] content[i] = "42" -> Parsed(JsonNumber("42"), i + 1)
           [] content[i] = "[" ->
                IF i + 1 <= Len(content) /\ content[i + 1] = "]"
                THEN Parsed(JsonArray(<<>>), i + 2)
                ELSE ParseElements(content, i + 1, <<>>)
           [] OTHER -> ParseFailure

ParseElements(content, i, items) ==
    LET element == ParseValue(content, i)
        j == element.next
    IN IF ~element.ok \/ j > Len(content) THEN ParseFailure
       ELSE CASE content[j] = "," ->
                    ParseElements(content, j + 1, Append(items, element.value))
              [] content[j] = "]" ->
                    Parsed(JsonArray(Append(items, element.value)), j + 1)
              [] OTHER -> ParseFailure

\* json.loads(content): the value, or Absent where it raises.
json_loads(content) ==
    LET parsed == ParseValue(content, 1)
    IN IF parsed.ok /\ parsed.next = Len(content) + 1
       THEN Some(parsed.value) ELSE Absent

\* content.find(token) and content.rfind(token), counted from 0; -1 if none.
find(content, token) ==
    IF \E i \in 1..Len(content) : content[i] = token
    THEN (CHOOSE i \in 1..Len(content) :
             /\ content[i] = token
             /\ \A j \in 1..(i - 1) : content[j] # token) - 1
    ELSE -1

rfind(content, token) ==
    IF \E i \in 1..Len(content) : content[i] = token
    THEN (CHOOSE i \in 1..Len(content) :
             /\ content[i] = token
             /\ \A j \in (i + 1)..Len(content) : content[j] # token) - 1
    ELSE -1

\* The value both handlers read from the model's reply, or Absent where the
\* model call, the extraction or json.loads raises.
LoadedReply(reply) ==
    IF reply = Absent THEN Absent
    ELSE LET content == Val(reply)
             start == find(content, "[")
             end == rfind(content, "]") + 1
         IN IF json_loads(content) # Absent THEN json_loads(content)
            ELSE IF start >= 0 /\ end > start
                 THEN json_loads(SubSeq(content, start + 1, end))
                 ELSE Absent

\* InsightResponse(insights=value) validates.
ValidInsightResponse(value) ==
    /\ value.kind = "array"
    /\ Len(value.items) >= 1
    /\ Len(value.items) <= 10
    /\ \A i \in 1..Len(value.items) :
          value.items[i].kind = "object" /\ value.items[i].name = "insight"

FallbackInsights == JsonArray(<<JsonObject("insight"), JsonObject("insight"),
                                JsonObject("insight")>>)

FallbackTips == JsonArray(<<JsonObject("tip"), JsonObject("tip"), JsonObject("tip")>>)

\* GET /ai/insights
get_ai_insights(s, reply) ==
    /\ UNCHANGED <<db_sql, pending>>
    /\ history' = NoHistory
    /\ UNCHANGED <<users, sessions, transactions, budgets, goals, today>>
    /\ LET current_user == get_current_user(s.access_token)
           insights == LoadedReply(reply)
       IN IF current_user = NoUser
          THEN last' = Unauthorized("insights")
          ELSE IF insights # Absent /\ ValidInsightResponse(Val(insights))
          THEN last' = Ok("insights", s.user_id, 0, 200,
                          [reply |-> reply, payload |-> Val(insights),
                           fallback |-> FALSE])
          ELSE last' = Ok("insights", s.user_id, 0, 200,
                          [reply |-> reply, payload |-> FallbackInsights,
                           fallback |-> TRUE])

\* GET /ai/tips
get_financial_tips(s, reply) ==
    /\ UNCHANGED <<db_sql, pending>>
    /\ history' = NoHistory
    /\ UNCHANGED <<users, sessions, transactions, budgets, goals, today>>
    /\ LET current_user == get_current_user(s.access_token)
           tips == LoadedReply(reply)
       IN IF current_user = NoUser
          THEN last' = Unauthorized("tips")
          ELSE IF tips # Absent
          THEN last' = Ok("tips", s.user_id, 0, 200,
                          [reply |-> reply, payload |-> Val(tips),
                           fallback |-> FALSE])
          ELSE last' = Ok("tips", s.user_id, 0, 200,
                          [reply |-> reply, payload |-> FallbackTips,
                           fallback |-> TRUE])

----------------------------------------------------------------------------
(* The advice specification: insights and tips asked by Alice, the model   *)
(* failing or replying with up to MaxReply tokens.                          *)

MaxReply == 3

ModelReplies ==
    Optional(UNION {[1..n -> JsonTokens] : n \in 0..MaxReply})

InitAdvice ==
    /\ SignedIn
    /\ transactions = {}
    /\ budgets = {}
    /\ goals = {}

NextAdvice ==
    \/ \E reply \in ModelReplies : get_ai_insights(SessionOf(Alice), reply)
    \/ \E reply \in ModelReplies : get_financial_tips(SessionOf(Alice), reply)

SpecAdvice == InitAdvice /\ [][NextAdvice]_vars

\* The entries of a payload: the elements of its array.
Entries(payload) == IF payload.kind = "array" THEN Len(payload.items) ELSE 0

\* C14: whatever the model call does (fails, replies with text that is no JSON,
\* replies with JSON of any shape, an empty array and a non-array included), the
\* insights endpoint and the tips endpoint answer 200 with a payload of at least
\* one entry.
C14_AdviceHasAnEntry ==
    last.op \in {"insights", "tips"} =>
        /\ last.status = 200
        /\ Entries(last.body.payload) >= 1

----------------------------------------------------------------------------
(* Filtering (routes/transactions.py).  A row of the filtered table carries *)
(* its description, a sequence of characters, beside the columns above.     *)

\* SQL LIKE on character sequences: % stands for any run of characters, _ for
\* any one character.
RECURSIVE Like(_, _)
Like(text, pattern) ==
    IF pattern = <<>> THEN text = <<>>
    ELSE IF Head(pattern) = "%"
         THEN \/ Like(text, Tail(pattern))
              \/ text # <<>> /\ Like(Tail(text), pattern)
         ELSE /\ text # <<>>
              /\ Head(pattern) = "_" \/ Head(pattern) = Head(text)
              /\ Like(Tail(text), Tail(pattern))

\* Transaction.description.ilike(f"%{search}%")
ilike(description, search) ==
    Like(lower(description), lower(<<"%">> \o search \o <<"%">>))

\* A faulty variant of ClampedLimit: the limit as given.
ClampedLimit_unclamped(limit) == limit

\* if limit > 1000: limit = 1000
ClampedLimit(limit) == IF limit > 1000 THEN 1000 ELSE limit

\* The filters the handler adds to the query, each only when its parameter is
\* given (for the strings: given and not empty).
FilterQuery(rows, user_id, q) ==
    {t \in rows :
        /\ t.user_id = user_id
        /\ (q.category # Absent /\ Val(q.category) # "")
              => t.category = Val(q.category)
        /\ (q.transaction_type # Absent /\ Val(q.transaction_type) # "")
              => t.transaction_type = Val(q.transaction_type)
        /\ InDateRange(t, q.date_from, q.date_to)
        /\ q.min_amount # Absent => t.amount >= Val(q.min_amount)
        /\ q.max_amount # Absent => t.amount <= Val(q.max_amount)
        /\ (q.search # Absent /\ Val(q.search) # <<>>)
              => ilike(t.description, Val(q.search))}

\* The ids of rows in the order of order_by(Transaction.date.desc()); rows of one
\* date come in the order of their ids.
RECURSIVE NewestFirst(_)
NewestFirst(rows) ==
    IF rows = {} THEN <<>>
    ELSE LET newest == MaxOf({DateKey(t.date) : t \in rows})
             ids == {t.id : t \in {x \in rows : DateKey(x.date) = newest}}
         IN SelectSeq([i \in 1..MaxOf(ids) |-> i], LAMBDA i : i \in ids)
               \o NewestFirst({x \in rows : DateKey(x.date) # newest})

\* query.order_by(Transaction.date.desc()).offset(offset).limit(limit).all()
FilterPage(rows, offset, limit) ==
    LET ids == NewestFirst(rows)
        until == IF offset + limit < Len(ids) THEN offset + limit ELSE Len(ids)
        page == IF offset + 1 > until THEN <<>> ELSE SubSeq(ids, offset + 1, until)
    IN [k \in 1..Len(page) |-> CHOOSE t \in rows : t.id = page[k]]

\* A GET /transactions/filter request that has not been answered yet.
FilterCall(q) ==
    [op |-> "call filter_transactions", caller |-> 0, id |-> 0, status |-> 0,
     detail |-> "", body |-> q]

\* GET /transactions/filter, answering the request q
filter_transactions(s) ==
    /\ last.op = "call filter_transactions"
    /\ UNCHANGED <<db_sql, pending>>
    /\ history' = NoHistory
    /\ UNCHANGED <<users, sessions, transactions, budgets, goals, today>>
    /\ LET q == last.body
           current_user == get_current_user(s.access_token)
           limit == ClampedLimit(q.limit)
       IN IF current_user = NoUser
          THEN last' = Unauthorized("filter_transactions")
          ELSE IF /\ q.transaction_type # Absent
                  /\ Val(q.transaction_type) # ""
                  /\ Val(q.transaction_type) \notin {"income", "expense"}
          THEN last' = Error("filter_transactions", s.user_id, 0, 400,
                             "transaction_type must be 'income' or 'expense'")
          ELSE last' = Ok("filter_transactions", s.user_id, 0, 200,
                          [request |-> q,
                           transactions |->
                              FilterPage(FilterQuery(transactions, current_user.id, q),
                                         q.offset, limit)])

----------------------------------------------------------------------------
(* The filter specification: one filter request on a table in which Alice   *)
(* has more than 1000 rows.                                                 *)

MaxBulk == 1004

Coffee == <<"C", "o", "f", "f", "e", "e">>
Pay == <<"P", "a", "y">>

\* Alice's rows 1..MaxBulk, alternately of January and February; then one row of
\* Bob's like them, and an income and a second expense of Alice's.
FilterLedger ==
    {[id |-> i, user_id |-> Alice.id, amount |-> 10, category |-> Food,
      transaction_type |-> "expense",
      date |-> IF i % 2 = 1 THEN January ELSE February,
      description |-> Coffee] : i \in 1..MaxBulk}
    \cup {[id |-> MaxBulk + 1, user_id |-> Bob.id, amount |-> 10, category |-> Food,
           transaction_type |-> "expense", date |-> January, description |-> Coffee],
          [id |-> MaxBulk + 2, user_id |-> Alice.id, amount |-> 500,
           category |-> Salary, transaction_type |-> "income", date |-> February,
           description |-> Pay],
          [id |-> MaxBulk + 3, user_id |-> Alice.id, amount |-> 20,
           category |-> "Other", transaction_type |-> "expense", date |-> January,
           description |-> <<"T", "a", "x", "i">>]}

FilterCriteria(category, type, date_from, date_to, min, max, search) ==
    [category |-> category, transaction_type |-> type,
     date_from |-> date_from, date_to |-> date_to, min_amount |-> min,
     max_amount |-> max, search |-> search]

FilterCriteriaTried ==
    {FilterCriteria(Absent, Absent, Absent, Absent, Absent, Absent, Absent),
     FilterCriteria(Some(Food), Absent, Absent, Absent, Absent, Absent, Absent),
     FilterCriteria(Some("Other"), Absent, Absent, Absent, Absent, Absent, Absent),
     FilterCriteria(Some(""), Some(""), Absent, Absent, Absent, Absent, Some(<<>>)),
     FilterCriteria(Absent, Some("expense"), Absent, Absent, Absent, Absent, Absent),
     FilterCriteria(Absent, Some("income"), Absent, Absent, Absent, Absent, Absent),
     FilterCriteria(Absent, Some("transfer"), Absent, Absent, Absent, Absent, Absent),
     FilterCriteria(Absent, Absent, Some(February), Absent, Absent, Absent, Absent),
     FilterCriteria(Absent, Absent, Absent, Some(January), Absent, Absent, Absent),
     FilterCriteria(Absent, Absent, Absent, Absent, Some(20), Absent, Absent),
     FilterCriteria(Absent, Absent, Absent, Absent, Absent, Some(10), Absent),
     FilterCriteria(Absent, Absent, Absent, Absent, Absent, Absent,
                    Some(<<"c", "o", "f">>)),
     FilterCriteria(Absent, Absent, Absent, Absent, Absent, Absent,
                    Some(<<"p", "_", "y">>)),
     FilterCriteria(Some(Food), Some("expense"), Some(January), Some(February),
                    Some(10), Some(10), Some(<<"C", "O", "F", "F", "E", "E">>))}

FilterLimits == {1, 1000, 1001, 5000}
FilterOffsets == {0, 2}

FilterRequests ==
    {[category |-> c.category, transaction_type |-> c.transaction_type,
      date_from |-> c.date_from, date_to |-> c.date_to,
      min_amount |-> c.min_amount, max_amount |-> c.max_amount,
      search |-> c.search, limit |-> limit, offset |-> offset] :
        c \in FilterCriteriaTried, limit \in FilterLimits, offset \in FilterOffsets}

InitFilter ==
    /\ users = {Alice, Bob}
    /\ sessions = {SessionOf(u) : u \in {Alice, Bob}}
    /\ transactions = FilterLedger
    /\ budgets = {}
    /\ goals = {}
    /\ today = 0
    /\ db_sql = TRUE
    /\ pending = {}
    /\ history = NoHistory
    /\ \E q \in FilterRequests : last = FilterCall(q)

NextFilter == \E s \in sessions : filter_transactions(s)

SpecFilter == InitFilter /\ [][NextFilter]_vars

\* C15: a filter request with a limit above 1000 is answered as the same request
\* with limit 1000 is: with at most 1000 transactions, each of them the caller's
\* and each meeting every criterion of the request.
C15_FilterLimitClamped ==
    (last.op = "filter_transactions" /\ last.status = 200
        /\ last.body.request.limit > 1000) =>
        LET q == last.body.request
            returned == last.body.transactions
        IN /\ returned =
                 FilterPage(FilterQuery(transactions, last.caller, q), q.offset, 1000)
           /\ Len(returned) <= 1000
           /\ \A k \in 1..Len(returned) :
                 /\ returned[k] \in transactions
                 /\ returned[k].user_id = last.caller
                 /\ (q.category # Absent /\ Val(q.category) # "")
                       => returned[k].category = Val(q.category)
                 /\ (q.transaction_type # Absent /\ Val(q.transaction_type) # "")
                       => returned[k].transaction_type = Val(q.transaction_type)
                 /\ q.date_from # Absent
                       => DateKey(returned[k].date) >= DateKey(Val(q.date_from))
                 /\ q.date_to # Absent
                       => DateKey(returned[k].date) <= DateKey(Val(q.date_to))
                 /\ q.min_amount # Absent => returned[k].amount >= Val(q.min_amount)
                 /\ q.max_amount # Absent => returned[k].amount <= Val(q.max_amount)
                 /\ (q.search # Absent /\ Val(q.search) # <<>>)
                       => ilike(returned[k].description, Val(q.search))

\* C15's case: a request with limit 5000 and offset 2 that more than 1002 of the
\* caller's rows match is answered with 1000 of them.
C15_Witness ==
    /\ last.op = "filter_transactions"
    /\ last.status = 200
    /\ last.body.request.limit = 5000
    /\ last.body.request.offset = 2
    /\ last.body.request.category = Some(Food)
    /\ Cardinality({t \in transactions :
                       t.user_id = last.caller /\ t.category = Food}) > 1002
    /\ Len(last.body.transactions) = 1000

----------------------------------------------------------------------------
(* The category specification: both users create transactions, which the    *)
(* categorizer labels, and update them, naming a category or not.           *)

CategoryCreates == {TxRequest(10, "expense", Absent, c) : c \in {Food, "Other"}}

CategoryUpdates == {TxUpdate(Absent, Some(Food), Absent, Absent),
                    TxUpdate(Absent, Some("Crypto"), Absent, Absent),
                    TxUpdate(Some(20), Absent, Absent, Absent)}

InitCategories ==
    /\ SignedIn
    /\ transactions = {}
    /\ budgets = {}
    /\ goals = {}

NextCategories ==
    \/ \E s \in sessions, r \in CategoryCreates :
          create_transaction(s, r.amount, r.transaction_type, r.date, r.category)
    \/ \E s \in sessions, id \in TransactionIds, upd \in CategoryUpdates :
          update_transaction(s, id, upd)

SpecCategories == InitCategories /\ [][NextCategories]_vars

\* C16: after any sequence of transaction create and update requests, the category
\* of every stored transaction is one of the 12 names of the category list (no
\* stored transaction is without a category in the model: create always sets one).
C16_StoredCategoryIsCanonical ==
    \A t \in transactions : t.category \in CATEGORIES

----------------------------------------------------------------------------
(* Account operations (routes/users.py): reactivation and password change. *)

\* POST /users/me/reactivate
reactivate_account(s) ==
    /\ UNCHANGED <<db_sql, pending>>
    /\ history' = NoHistory
    /\ UNCHANGED <<sessions, transactions, budgets, goals, today>>
    /\ LET current_user == get_current_user(s.access_token)
       IN IF current_user = NoUser
          THEN /\ last' = Unauthorized("reactivate")
               /\ UNCHANGED users
          ELSE IF current_user.is_active
          THEN /\ last' = Error("reactivate", s.user_id, 0, 400,
                                "Account is already active")
               /\ UNCHANGED users
          ELSE LET updated == [current_user EXCEPT !.is_active = TRUE]
               IN /\ users' = Store(users, updated)
                  /\ last' = Ok("reactivate", s.user_id, 0, 200,
                                [id |-> updated.id, email |-> updated.email,
                                 username |-> updated.username,
                                 is_active |-> updated.is_active])

\* PasswordChange: current_password of at least 1 character, new_password and
\* confirm_password of 6 to 100.
ValidPasswordChange(current_password, new_password, confirm_password) ==
    /\ Len(current_password) >= 1
    /\ Len(new_password) >= 6 /\ Len(new_password) <= 100
    /\ Len(confirm_password) >= 6 /\ Len(confirm_password) <= 100

NoError == [status |-> 200, detail |-> ""]

\* A faulty variant of ChangePasswordError: the current password is not verified.
ChangePasswordError_unverified(hashed_password, current_password, new_password, confirm_password) ==
    IF new_password # confirm_password
    THEN [status |-> 400, detail |-> "New password and confirm password do not match"]
    ELSE IF verify_password(new_password, hashed_password)
    THEN [status |-> 400,
          detail |-> "New password must be different from current password"]
    ELSE NoError

\* The three checks of change_password, in the order the handler makes them.
ChangePasswordError(hashed_password, current_password, new_password, confirm_password) ==
    IF new_password # confirm_password
    THEN [status |-> 400, detail |-> "New password and confirm password do not match"]
    ELSE IF ~verify_password(current_password, hashed_password)
    THEN [status |-> 401, detail |-> "Current password is incorrect"]
    ELSE IF verify_password(new_password, hashed_password)
    THEN [status |-> 400,
          detail |-> "New password must be different from current password"]
    ELSE NoError

\* PUT /users/me/password
change_password(s, current_password, new_password, confirm_password) ==
    /\ UNCHANGED <<db_sql, pending>>
    /\ history' = NoHistory
    /\ UNCHANGED <<sessions, transactions, budgets, goals, today>>
    /\ LET current_user == get_current_user(s.access_token)
           problem == ChangePasswordError(current_user.hashed_password,
                                          current_password, new_password,
                                          confirm_password)
       IN IF current_user = NoUser
          THEN /\ last' = Unauthorized("change_password")
               /\ UNCHANGED users
          ELSE IF ~ValidPasswordChange(current_password, new_password,
                                       confirm_password)
          THEN /\ last' = Error("change_password", s.user_id, 0, 422,
                                "validation error")
               /\ UNCHANGED users
          ELSE IF problem # NoError
          THEN /\ last' = Error("change_password", s.user_id, 0, problem.status,
                                problem.detail)
               /\ UNCHANGED users
          ELSE /\ users' = Store(users,
                                 [current_user EXCEPT
                                    !.hashed_password = get_password_hash(new_password)])
               /\ last' = Ok("change_password", s.user_id, 0, 200, NoBody)

----------------------------------------------------------------------------
(* The account specification: the two signed-in users change their          *)
(* passwords, deactivate and reactivate their accounts, and log in.         *)

CurrentPasswords == {"pw1", "pw2", "secret", ""}
NewPasswords == {"secret", "hunter2", "abc"}

InitAccount ==
    /\ SignedIn
    /\ transactions = {}
    /\ budgets = {}
    /\ goals = {}

NextAccount ==
    \/ \E s \in sessions, c \in CurrentPasswords, n \in NewPasswords,
          f \in NewPasswords : change_password(s, c, n, f)
    \/ \E s \in sessions : delete_user_account(s)
    \/ \E s \in sessions : reactivate_account(s)
    \/ \E e \in Emails, p \in CurrentPasswords \cup NewPasswords : login(e, p)

SpecAccount == InitAccount /\ [][NextAccount]_vars

\* The user row with the given id.
UserById(rows, id) == First({u \in rows : u.id = id}, NoUser)

\* C17: a reactivate request of a user who deactivated the account succeeds and
\* sets the account's active flag; a reactivate request on an active account is
\* rejected and leaves the flag set.
C17_ReactivateRestores ==
    [][\A s \in sessions :
          (last'.op = "reactivate" /\ reactivate_account(s)) =>
             IF UserById(users, s.user_id).is_active
             THEN /\ last'.status \in 400..499
                  /\ UserById(users', s.user_id).is_active
             ELSE /\ last'.status = 200
                  /\ UserById(users', s.user_id).is_active]_vars

\* C19 as stated: a change-password request of a signed-in active user succeeds if
\* and only if new_password equals confirm_password, current_password verifies
\* against the stored hash and new_password does not.
C19_SucceedsIffThreeChecks ==
    [][\A s \in sessions, c \in CurrentPasswords, n \in NewPasswords,
          f \in NewPasswords :
          (/\ last'.op = "change_password"
           /\ get_current_user(s.access_token) # NoUser
           /\ change_password(s, c, n, f))
          => LET stored == get_current_user(s.access_token).hashed_password
             IN last'.status = 200 <=>
                   (/\ n = f
                    /\ verify_password(c, stored)
                    /\ ~verify_password(n, stored))]_vars

\* C19, amended: a change-password request of a signed-in active user whose body is
\* valid (current_password not empty, new_password and confirm_password of 6 to
\* 100 characters) succeeds if and only if new_password equals confirm_password,
\* current_password verifies against the stored hash and new_password does not; on
\* success the stored hash verifies new_password and no longer the old password;
\* on every rejection, of an invalid body included, the stored hash is unchanged.
C19_ValidBodySucceedsIffThreeChecks ==
    [][\A s \in sessions, c \in CurrentPasswords, n \in NewPasswords,
          f \in NewPasswords :
          (/\ last'.op = "change_password"
           /\ get_current_user(s.access_token) # NoUser
           /\ change_password(s, c, n, f))
          => LET before == get_current_user(s.access_token)
                 stored == before.hashed_password
                 after == UserById(users', before.id).hashed_password
             IN /\ ValidPasswordChange(c, n, f) =>
                      (last'.status = 200 <=>
                          (/\ n = f
                           /\ verify_password(c, stored)
                           /\ ~verify_password(n, stored)))
                /\ ~ValidPasswordChange(c, n, f) => last'.status = 422
                /\ last'.status = 200 =>
                      /\ verify_password(n, after)
                      /\ ~verify_password(c, after)
                /\ last'.status # 200 => users' = users]_vars

\* C19's case: Alice has changed her password from "pw1" to "secret", and a later
\* request that gives the old password as the current one was rejected.
C19_Witness ==
    /\ last.op = "change_password"
    /\ last.status = 401
    /\ last.caller = Alice.id
    /\ UserById(users, Alice.id).hashed_password = get_password_hash("secret")

----------------------------------------------------------------------------
(* Token refresh (routes/auth.py).  The refresh token a login returns with  *)
(* an access token has the same subject; verify_refresh_token accepts only  *)
(* a token made by create_refresh_token.                                    *)

\* create_refresh_token(data={"sub": username}): the signed claims.
create_refresh_token(username) == [sub |-> username, type |-> "refresh"]

\* An access token presented where a refresh token is expected.
AsRefreshToken(access_token) == [sub |-> access_token.sub, type |-> "access"]

\* verify_refresh_token: the payload, or Absent where it raises.
verify_refresh_token(refresh_token) ==
    IF refresh_token.type = "refresh"
    THEN Some([sub |-> refresh_token.sub]) ELSE Absent

\* A faulty variant of RefreshError: an inactive user passes.
RefreshError_inactive_allowed(username) ==
    LET db_user == First({u \in users : u.username = username}, NoUser)
    IN IF username = None
       THEN [status |-> 401, detail |-> "Invalid refresh token"]
       ELSE IF db_user = NoUser
       THEN [status |-> 401, detail |-> "User not found"]
       ELSE NoError

\* The checks of refresh_access_token on the subject of a verified token.
RefreshError(username) ==
    LET db_user == First({u \in users : u.username = username}, NoUser)
    IN IF username = None
       THEN [status |-> 401, detail |-> "Invalid refresh token"]
       ELSE IF db_user = NoUser
       THEN [status |-> 401, detail |-> "User not found"]
       ELSE IF ~db_user.is_active
       THEN [status |-> 403, detail |-> "User account is inactive"]
       ELSE NoError

\* POST /auth/refresh, sent by the client that holds the session s
refresh_access_token(s, refresh_token) ==
    /\ UNCHANGED <<db_sql, pending>>
    /\ history' = NoHistory
    /\ UNCHANGED <<users, transactions, budgets, goals, today>>
    /\ LET payload == verify_refresh_token(refresh_token)
           username == Val(payload).sub
           db_user == First({u \in users : u.username = username}, NoUser)
       IN IF payload = Absent
          THEN /\ last' = Error("refresh", s.user_id, 0, 401, "Invalid refresh token")
               /\ UNCHANGED sessions
          ELSE IF RefreshError(username) # NoError
          THEN /\ last' = Error("refresh", s.user_id, 0, RefreshError(username).status,
                                RefreshError(username).detail)
               /\ UNCHANGED sessions
          ELSE LET new_access_token == create_access_token(db_user.username)
               IN /\ sessions' = sessions \cup {[access_token |-> new_access_token,
                                                 user_id |-> s.user_id]}
                  /\ last' = Ok("refresh", s.user_id, 0, 200,
                                [access_token |-> new_access_token])

----------------------------------------------------------------------------
(* The token specification: the two signed-in users rename and deactivate   *)
(* their accounts, log in and refresh their tokens.                         *)

TokenUsernames == {"alice", "bob", "al"}

\* The tokens a client that holds the session s can send to /auth/refresh.
RefreshTokensOf(s) ==
    {create_refresh_token(s.access_token.sub), AsRefreshToken(s.access_token)}

InitTokens ==
    /\ SignedIn
    /\ transactions = {}
    /\ budgets = {}
    /\ goals = {}

NextTokens ==
    \/ \E e \in Emails, p \in Passwords : login(e, p)
    \/ \E s \in sessions : \E t \in RefreshTokensOf(s) : refresh_access_token(s, t)
    \/ \E s \in sessions, u \in TokenUsernames : update_user_profile(s, None, u)
    \/ \E s \in sessions : delete_user_account(s)

SpecTokens == InitTokens /\ [][NextTokens]_vars

\* C18: login and refresh issue a token only for a user whose active flag is
\* set: a login with the right password for an inactive account is answered 403
\* and gives no token, and a refresh with a valid refresh token whose subject
\* names no user or an inactive user is rejected and gives no access token.
C18_TokensOnlyForActiveUsers ==
    [][/\ \A e \in Emails, p \in Passwords :
             (last'.op = "login" /\ login(e, p)) =>
                LET db_user == First({u \in users : u.email = e}, NoUser)
                IN /\ last'.status = 200 => db_user.is_active
                   /\ (/\ db_user # NoUser
                       /\ verify_password(p, db_user.hashed_password)
                       /\ ~db_user.is_active)
                        => /\ last'.status = 403
                           /\ last'.body = NoBody
                           /\ sessions' = sessions
       /\ \A s \in sessions : \A t \in RefreshTokensOf(s) :
             (last'.op = "refresh" /\ refresh_access_token(s, t)) =>
                LET db_user == First({u \in users : u.username = t.sub}, NoUser)
                IN /\ last'.status = 200 => (db_user # NoUser /\ db_user.is_active)
                   /\ (db_user = NoUser \/ ~db_user.is_active)
                        => /\ last'.status \in {401, 403}
                           /\ last'.body = NoBody
                           /\ sessions' = sessions]_vars

\* C18's case: a refresh with the refresh token of a user who has deactivated
\* the account was answered 403.
C18_Witness ==
    /\ last.op = "refresh"
    /\ last.status = 403
    /\ ~UserById(users, last.caller).is_active

----------------------------------------------------------------------------
(* Timeline statistics (routes/transactions.py).  The dates of the model are *)
(* months, so a period of any of the three groupings holds the rows of one  *)
(* month; the key keeps the format the grouping prints it in.               *)

\* date - relativedelta(months=n)
MonthsBefore(d, n) ==
    [year |-> (DateKey(d) - n - 1) \div 12, month |-> ((DateKey(d) - n - 1) % 12) + 1]

\* transaction.date.strftime(...) for the grouping
PeriodKey(group_by, d) ==
    [format |-> CASE group_by = "day" -> "%Y-%m-%d"
                  [] group_by = "week" -> "%Y-W%U"
                  [] OTHER -> "%Y-%m",
     year |-> d.year, month |-> d.month]

\* GET /transactions/stats/timeline
get_timeline_statistics(s, date_from, date_to, group_by) ==
    /\ UNCHANGED <<db_sql, pending>>
    /\ history' = NoHistory
    /\ UNCHANGED <<users, sessions, transactions, budgets, goals, today>>
    /\ LET current_user == get_current_user(s.access_token)
           to == IF date_to = Absent THEN UtcNow ELSE Val(date_to)
           from == IF date_from = Absent THEN MonthsBefore(to, 3) ELSE Val(date_from)
           rows == {t \in transactions :
                       /\ t.user_id = current_user.id
                       /\ InDateRange(t, Some(from), Some(to))}
           keys == {PeriodKey(group_by, t.date) : t \in rows}
           of(key, income) ==
               {t \in rows : /\ PeriodKey(group_by, t.date) = key
                             /\ (t.transaction_type = "income") = income}
           sum(rs) == SumOver(rs, [t \in rs |-> t.amount])
       IN IF current_user = NoUser
          THEN last' = Unauthorized("timeline_stats")
          ELSE IF group_by \notin {"day", "week", "month"}
          THEN last' = Error("timeline_stats", s.user_id, 0, 400,
                             "group_by must be 'day', 'week', or 'month'")
          ELSE last' = Ok("timeline_stats", s.user_id, 0, 200,
                          [group_by |-> group_by,
                           date_from |-> from,
                           date_to |-> to,
                           timeline |->
                              [key \in keys |->
                                  [income |-> sum(of(key, TRUE)),
                                   expense |-> sum(of(key, FALSE)),
                                   net |-> sum(of(key, TRUE)) - sum(of(key, FALSE))]]])

----------------------------------------------------------------------------
(* The sign specification: both users record expenses of either sign and an *)
(* income, create a budget and read every aggregate.                        *)

SignCreates == {TxRequest(30, "expense", Absent, Food),
                TxRequest(-30, "expense", Absent, Food),
                TxRequest(100, "income", Absent, Salary)}

InitSigns ==
    /\ SignedIn
    /\ transactions = {}
    /\ budgets = {}
    /\ goals = {}

NextSigns ==
    \/ \E s \in sessions, r \in SignCreates :
          create_transaction(s, r.amount, r.transaction_type, r.date, r.category)
    \/ \E s \in sessions : get_analytics_summary(s)
    \/ \E s \in sessions, ty \in {"expense", "income"} :
          get_category_statistics(s, Absent, Absent, ty)
    \/ \E s \in sessions, f \in Optional({January}), g \in {"day", "month", "year"} :
          get_timeline_statistics(s, f, Absent, g)
    \/ \E s \in sessions : create_budget(s, Food, 100, 1, 2025)

SpecSigns == InitSigns /\ [][NextSigns]_vars

\* The sum of the absolute amounts of rows.
Magnitude(rows) == SumOver(rows, [t \in rows |-> Abs(t.amount)])

\* The caller's expense rows.
ExpensesOf(user_id) ==
    {t \in transactions : t.user_id = user_id /\ t.transaction_type = "expense"}

\* C20: in every aggregate (the analytics summary, the category statistics, the
\* timeline statistics and a budget's current_spent) an expense of amount a counts
\* as |a| in the expense figure, so the sign an expense is stored with makes no
\* difference.
C20_ExpensesCountByMagnitude ==
    /\ (last.op = "summary" /\ last.status = 200) =>
          last.body.total_expenses = Magnitude(ExpensesOf(last.caller))
    /\ (last.op = "category_stats" /\ last.status = 200
           /\ last.body.transaction_type = "expense") =>
          \A c \in DOMAIN last.body.categories :
             last.body.categories[c].total =
                Magnitude({t \in ExpensesOf(last.caller) : t.category = c})
    /\ (last.op = "timeline_stats" /\ last.status = 200) =>
          \A key \in DOMAIN last.body.timeline :
             last.body.timeline[key].expense =
                Magnitude({t \in ExpensesOf(last.caller) :
                              PeriodKey(last.body.group_by, t.date) = key})
    /\ (last.op = "create_budget" /\ last.status = 201) =>
          last.body.current_spent =
             Magnitude({t \in ExpensesOf(last.caller) :
                           /\ t.category = last.body.category
                           /\ t.date.month = last.body.month
                           /\ t.date.year = last.body.year})

----------------------------------------------------------------------------
(* Concurrent budget creation: create_budget is a plain `def`, so the server *)
(* runs each request on a worker thread with a database session of its own.  *)
(* A request is split at the point where another thread can run: after the   *)
(* existence query has answered and before the insert is committed.          *)

MaxPending == 2

\* A faulty variant of InsertConflicts: a unique index on the four columns.
InsertConflicts_unique(user_id, category, month, year) == BudgetExists(user_id, category, month, year)

\* Whether the storage layer rejects the insert of a budget for these four
\* columns at commit: the budget table carries no uniqueness constraint.
InsertConflicts(user_id, category, month, year) == FALSE

\* create_budget up to its existence check: the 401 and 400 answers end the
\* request, otherwise it goes on holding the answer "no such budget".
create_budget_check(s, category, monthly_limit, month, year) ==
    /\ UNCHANGED db_sql
    /\ history' = NoHistory
    /\ UNCHANGED <<users, sessions, transactions, budgets, goals, today>>
    /\ LET current_user == get_current_user(s.access_token)
       IN IF current_user = NoUser
          THEN /\ last' = Unauthorized("create_budget")
               /\ UNCHANGED pending
          ELSE IF BudgetExists(current_user.id, category, month, year)
          THEN /\ last' = Error("create_budget", s.user_id, 0, 400,
                                "Budget already exists")
               /\ UNCHANGED pending
          ELSE \E rid \in 1..MaxPending :
                  /\ \A p \in pending : p.rid # rid
                  /\ pending' = pending \cup
                        {[rid |-> rid,
                          user_id |-> current_user.id,
                          category |-> category,
                          monthly_limit |-> monthly_limit,
                          month |-> month,
                          year |-> year]}
                  /\ last' = Ok("create_budget: no existing budget", s.user_id,
                                rid, 0, NoBody)

\* The rest of create_budget for a request that passed the check: the
\* current_spent query, db.add, db.commit, db.refresh and the response.
create_budget_insert(p) ==
    /\ UNCHANGED db_sql
    /\ history' = NoHistory
    /\ UNCHANGED <<users, sessions, transactions, goals, today>>
    /\ p \in pending
    /\ pending' = pending \ {p}
    /\ IF ~db_sql \/ InsertConflicts(p.user_id, p.category, p.month, p.year)
       THEN /\ last' = InternalServerError("create_budget", p.user_id, 0)
            /\ UNCHANGED budgets
       ELSE /\ NextId(budgets) <= MaxBudgets
            /\ LET new_budget ==
                     [id |-> NextId(budgets),
                      user_id |-> p.user_id,
                      category |-> p.category,
                      monthly_limit |-> p.monthly_limit,
                      current_spent |-> SpentQuery(p.user_id, p.category,
                                                   p.month, p.year),
                      month |-> p.month,
                      year |-> p.year]
               IN /\ budgets' = budgets \cup {new_budget}
                  /\ last' = Ok("create_budget", p.user_id, new_budget.id, 201,
                                _format_budget_response(new_budget))

InitRace ==
    /\ SignedIn
    /\ transactions = {}
    /\ budgets = {}
    /\ goals = {}

NextRace ==
    \/ \E s \in sessions, c \in {Food, "Other"}, m \in BudgetMonths, y \in BudgetYears :
          create_budget_check(s, c, 100, m, y)
    \/ \E p \in pending : create_budget_insert(p)

SpecRace == InitRace /\ [][NextRace]_vars

\* Two budgets of one user for the same category, month and year.
DuplicateBudgets ==
    \E b1 \in budgets : \E b2 \in budgets :
        /\ b1.id # b2.id
        /\ b1.user_id = b2.user_id
        /\ b1.category = b2.category
        /\ b1.month = b2.month
        /\ b1.year = b2.year

\* C22: a create-budget request that passed the existence check inserts its
\* budget and answers 201 whatever other requests committed in between, so two
\* concurrent requests for the same user, category, month and year that both
\* pass the check before either commits both insert.
C22_CheckedRequestInserts ==
    [][\A p \in pending :
          (db_sql /\ last'.op = "create_budget" /\ pending' = pending \ {p}
                  /\ create_budget_insert(p))
          => /\ last'.status = 201
             /\ \E b \in budgets' \ budgets :
                   /\ b.user_id = p.user_id
                   /\ b.category = p.category
                   /\ b.month = p.month
                   /\ b.year = p.year
             /\ budgets \subseteq budgets']_vars

\* Both requests have been answered 201 and the table holds two budgets for
\* the same user, category, month and year.
C22_Witness ==
    /\ DuplicateBudgets
    /\ pending = {}
    /\ last.op = "create_budget"
    /\ last.status = 201

----------------------------------------------------------------------------
(* Routing of GET requests inside the transactions router. A path is the     *)
(* sequence of its segments after the router's prefix; the router tries its  *)
(* routes in the order the decorators declared them and the first route      *)
(* whose path and method both match handles the request.                     *)

\* A path segment written {name} in a route: it matches any one segment.
Param == "{transaction_id}"

\* The routes of the router, in declaration order.
TransactionRoutes ==
    <<[method |-> "GET", path |-> <<>>, endpoint |-> "get_transactions"],
      [method |-> "POST", path |-> <<>>, endpoint |-> "create_transaction"],
      [method |-> "GET", path |-> <<Param>>, endpoint |-> "get_transaction"],
      [method |-> "DELETE", path |-> <<Param>>, endpoint |-> "delete_transaction"],
      [method |-> "PUT", path |-> <<Param>>, endpoint |-> "update_transaction"],
      [method |-> "GET", path |-> <<"filter">>, endpoint |-> "filter_transactions"],
      [method |-> "GET", path |-> <<"stats", "category">>,
       endpoint |-> "get_category_statistics"],
      [method |-> "GET", path |-> <<"stats", "timeline">>,
       endpoint |-> "get_timeline_statistics"],
      [method |-> "GET", path |-> <<"export">>, endpoint |-> "export_transactions"]>>

\* Whether a route's path matches a request path: the same number of segments,
\* each equal to the route's or standing where the route has a parameter.
PathMatches(pattern, path) ==
    /\ Len(pattern) = Len(path)
    /\ \A i \in 1..Len(path) : pattern[i] = Param \/ pattern[i] = path[i]

\* The route that handles a request: the first whose path and method match;
\* failing that the first whose path matches (it answers 405), else none.
NoRoute == [method |-> "", path |-> <<>>, endpoint |-> "not found"]

Dispatch(method, path) ==
    LET full == {i \in 1..Len(TransactionRoutes) :
                    /\ TransactionRoutes[i].method = method
                    /\ PathMatches(TransactionRoutes[i].path, path)}
        partial == {i \in 1..Len(TransactionRoutes) :
                       PathMatches(TransactionRoutes[i].path, path)}
    IN IF full # {}
       THEN TransactionRoutes[CHOOSE i \in full : \A j \in full : i <= j]
       ELSE IF partial # {}
       THEN [method |-> method, path |-> path, endpoint |-> "method not allowed"]
       ELSE NoRoute

\* The integer a path segment is validated to for `transaction_id: int`;
\* 0 stands for a segment that is no integer (the ids in use are positive).
SegmentAsInt(segment) ==
    CASE segment = "1" -> 1
      [] segment = "2" -> 2
      [] segment = "3" -> 3
      [] OTHER -> 0

\* The query of GET /filter with no parameters given.
DefaultFilter ==
    [limit |-> 100, offset |-> 0] @@
    FilterCriteria(Absent, Absent, Absent, Absent, Absent, Absent, Absent)

\* GET /export with no parameters: the caller's transactions, newest first.
export_transactions(s) ==
    /\ UNCHANGED <<db_sql, pending>>
    /\ history' = NoHistory
    /\ UNCHANGED <<users, sessions, transactions, budgets, goals, today>>
    /\ LET current_user == get_current_user(s.access_token)
       IN IF current_user = NoUser
          THEN last' = Unauthorized("export_transactions")
          ELSE last' = Ok("export_transactions", s.user_id, 0, 200,
                          [transactions |->
                              NewestFirst({t \in transactions :
                                              t.user_id = current_user.id})])

\* GET "" : the caller's transactions, newest first.
get_transactions(s) ==
    /\ UNCHANGED <<db_sql, pending>>
    /\ history' = NoHistory
    /\ UNCHANGED <<users, sessions, transactions, budgets, goals, today>>
    /\ LET current_user == get_current_user(s.access_token)
       IN IF current_user = NoUser
          THEN last' = Unauthorized("get_transactions")
          ELSE last' = Ok("get_transactions", s.user_id, 0, 200,
                          [transactions |->
                              NewestFirst({t \in transactions :
                                              t.user_id = current_user.id})])

\* A GET request to the router with no query parameters.
http_get(s, path) ==
    LET route == Dispatch("GET", path)
        current_user == get_current_user(s.access_token)
    IN CASE route.endpoint = "get_transactions" -> get_transactions(s)
         [] route.endpoint = "get_transaction" ->
               IF current_user # NoUser /\ SegmentAsInt(path[1]) = 0
               THEN /\ UNCHANGED <<db_sql, pending>>
                    /\ history' = NoHistory
                    /\ UNCHANGED <<users, sessions, transactions, budgets, goals,
                                   today>>
                    /\ last' = Error("get_transaction", s.user_id, 0, 422,
                                     "Input should be a valid integer")
               ELSE get_transaction(s, SegmentAsInt(path[1]))
         [] route.endpoint = "filter_transactions" ->
               /\ UNCHANGED <<db_sql, pending>>
               /\ history' = NoHistory
               /\ UNCHANGED <<users, sessions, transactions, budgets, goals, today>>
               /\ last' = IF current_user = NoUser
                          THEN Unauthorized("filter_transactions")
                          ELSE Ok("filter_transactions", s.user_id, 0, 200,
                                  [request |-> DefaultFilter,
                                   transactions |->
                                      FilterPage(FilterQuery(transactions,
                                                             current_user.id,
                                                             DefaultFilter),
                                                 0, ClampedLimit(100))])
         [] route.endpoint = "get_category_statistics" ->
               get_category_statistics(s, Absent, Absent, "expense")
         [] route.endpoint = "get_timeline_statistics" ->
               get_timeline_statistics(s, Absent, Absent, "day")
         [] route.endpoint = "export_transactions" -> export_transactions(s)
         [] OTHER ->
               /\ UNCHANGED <<db_sql, pending>>
               /\ history' = NoHistory
               /\ UNCHANGED <<users, sessions, transactions, budgets, goals, today>>
               /\ last' = Error(route.endpoint, 0, 0,
                                IF route = NoRoute THEN 404 ELSE 405,
                                IF route = NoRoute THEN "Not Found"
                                ELSE "Method Not Allowed")

RoutePaths == {<<>>, <<"1">>, <<"2">>, <<"filter">>, <<"export">>, <<"stats">>,
               <<"stats", "category">>, <<"stats", "timeline">>, <<"1", "export">>}

InitRoutes ==
    /\ SignedIn
    /\ transactions = {}
    /\ budgets = {}
    /\ goals = {}

NextRoutes ==
    \/ \E s \in sessions, r \in SignCreates :
          create_transaction(s, r.amount, r.transaction_type, r.date, r.category)
    \/ \E s \in sessions, path \in RoutePaths : http_get(s, path)

SpecRoutes == InitRoutes /\ [][NextRoutes]_vars

\* C23: a GET to /transactions/filter is handled by the filter operation and a
\* GET to /transactions/export by the export operation; neither is handled by
\* the fetch-by-id route.
C23_FilterAndExportReachTheirHandlers ==
    [][\A s \in sessions :
          /\ http_get(s, <<"filter">>) => last'.op = "filter_transactions"
          /\ http_get(s, <<"export">>) => last'.op = "export_transactions"]_vars

----------------------------------------------------------------------------
(* Rejected updates: requests that assign some fields and are then refused.  *)

\* Updates that change the amounts and carry a target date; 77 and 33 are
\* amounts no goal is created with.
RejectableGoalUpdates ==
    {GoalUpdate(Some(77), Some(33), Some(d), Absent) : d \in GoalDates}

\* Profile updates that change the email to one nobody holds.
FreshEmail == "new@x.io"

InitRejected ==
    /\ SignedIn
    /\ transactions = {}
    /\ budgets = {}
    /\ goals = {}

NextRejected ==
    \/ \E s \in sessions, c \in GoalCurrents, d \in GoalDates :
          create_goal(s, 100, c, d)
    \/ \E s \in sessions, id \in GoalIds, upd \in RejectableGoalUpdates :
          update_goal(s, id, upd)
    \/ \E s \in sessions, u \in Usernames \cup {"al"} :
          update_user_profile(s, FreshEmail, u)
    \/ next_day

SpecRejected == InitRejected /\ [][NextRejected]_vars

\* C24: an update answered 400 leaves the stored records as they were before
\* the request, the fields it assigned before the refusal included: a goal
\* update refused for its target date persists none of its amounts, a profile
\* update refused for its username does not persist its email.
C24_RejectedUpdatePersistsNothing ==
    [][(last'.op \in {"update_goal", "update_me"} /\ last'.status = 400)
       => (goals' = goals /\ users' = users)]_vars

\* A goal update that asked for the amounts 77 and 33 with a target date that
\* is not in the future has been answered 400, and the stored goal holds
\* neither amount.
C24_Witness ==
    /\ last.op = "update_goal"
    /\ last.status = 400
    /\ \E g \in goals :
          /\ g.id = last.id
          /\ g.target_amount # 77
          /\ g.current_amount # 33

----------------------------------------------------------------------------
(* The ad-hoc categorize endpoint of the advisor router: POST /ai/categorize. *)

\* Whether a text is, character for character, one of the 12 names.
IsCategoryName(text) == \E c \in CATEGORIES : Spell(c) = text

\* The name a text spells.
NameOf(text) == CHOOSE c \in CATEGORIES : Spell(c) = text

\* What the endpoint returns for a model reply; reply is Absent when
\* llm.ainvoke raises.  confidence is in hundredths.
AdHocCategorized(reply) ==
    IF reply = Absent
    THEN [category |-> "Other", confidence |-> 0, ai_categorized |-> FALSE]
    ELSE LET category == strip(Val(reply))
         IN [category |-> IF IsCategoryName(category) THEN NameOf(category)
                          ELSE "Other",
             confidence |-> 92,
             ai_categorized |-> TRUE]

\* POST /ai/categorize
categorize_transaction(s, description, amount, reply) ==
    /\ UNCHANGED <<db_sql, pending>>
    /\ history' = NoHistory
    /\ UNCHANGED <<users, sessions, transactions, budgets, goals, today>>
    /\ LET current_user == get_current_user(s.access_token)
       IN IF current_user = NoUser
          THEN last' = Unauthorized("categorize_transaction")
          ELSE last' = Ok("categorize_transaction", s.user_id, 0, 200,
                          [description |-> description, amount |-> amount,
                           reply |-> reply] @@ AdHocCategorized(reply))

InitAdHoc ==
    /\ SignedIn
    /\ transactions = {}
    /\ budgets = {}
    /\ goals = {}

NextAdHoc ==
    \E s \in sessions, d \in Descriptions, r \in Optional(Replies) :
        categorize_transaction(s, d, 575, r)

SpecAdHoc == InitAdHoc /\ [][NextAdHoc]_vars

\* C25: the ad-hoc categorize endpoint always returns one of the 12 names; it
\* returns ai_categorized = true with confidence 0.92 only when the model's own
\* answer was one of the 12; and whenever it falls back to "Other" because the
\* answer was none of them or the call failed, it returns ai_categorized = false
\* with confidence 0.0.
C25_AdHocFlagsFollowTheAnswer ==
    last.op = "categorize_transaction" /\ last.status = 200 =>
        LET own == /\ last.body.reply # Absent
                   /\ IsCategoryName(strip(Val(last.body.reply)))
        IN /\ last.body.category \in CATEGORIES
           /\ (last.body.ai_categorized /\ last.body.confidence = 92) => own
           /\ ~own => /\ last.body.category = "Other"
                      /\ ~last.body.ai_categorized
                      /\ last.body.confidence = 0

----------------------------------------------------------------------------
(* Monthly aggregation of daily predictions, as forecast_expenses does it.   *)
(* A date is its day number counted from 1 January 2025 (day 1); the         *)
(* calendar covers 2025 and 2026, neither a leap year.                       *)

\* The day number of the last day of each month of a year of 365 days.
MonthEnds == <<31, 59, 90, 120, 151, 181, 212, 243, 273, 304, 334, 365>>

\* ds.dt.to_period('M'): the month a day falls in, counted from January 2025.
MonthOfDay(d) ==
    LET in_year == ((d - 1) % 365) + 1
        year == (d - 1) \div 365
    IN 12 * year + (CHOOSE k \in 1..12 :
                       /\ in_year <= MonthEnds[k]
                       /\ k > 1 => in_year > MonthEnds[k - 1])

\* int(x) for x = num / den with den > 0: the fraction is dropped, towards zero.
IntOf(num, den) == IF num >= 0 THEN num \div den ELSE -((-num) \div den)

\* The monthly entries forecast_expenses builds from the daily predictions of
\* the statistical fallback: per calendar month the sums of yhat, yhat_lower
\* and yhat_upper and the mean confidence, each cut to an integer; the first
\* `months` of them.
MonthlyFromDaily(daily_predictions, months) ==
    LET n == Len(daily_predictions)
        month == [i \in 1..n |-> MonthOfDay(daily_predictions[i].ds)]
        first == month[1]
        groups == {month[i] : i \in 1..n}
        entry(m) ==
            LET group == {i \in 1..n : month[i] = m}
                den == daily_predictions[1].yhat.den
            IN [month |-> m,
                predicted_expenses |->
                    IntOf(SumOver(group, [i \in group |->
                                             daily_predictions[i].yhat.num]), den),
                lower_bound |->
                    IntOf(SumOver(group, [i \in group |->
                                             daily_predictions[i].yhat_lower.num]),
                          den * 100),
                upper_bound |->
                    IntOf(SumOver(group, [i \in group |->
                                             daily_predictions[i].yhat_upper.num]),
                          den * 100),
                confidence |->
                    SumOver(group, [i \in group |->
                                       daily_predictions[i].confidence])
                        \div Cardinality(group)]
    IN IF n = 0 THEN <<>>
       ELSE [k \in 1..(IF Cardinality(groups) < months THEN Cardinality(groups)
                       ELSE months) |-> entry(first + k - 1)]

\* C30: every daily prediction of the statistical fallback, and every monthly
\* entry aggregated from the daily predictions, has
\* 0 <= lower bound <= predicted value <= upper bound, for every input series,
\* the falling ones included.
C30_BoundsAreOrdered ==
    last.op = "statistical_forecast_fallback" =>
        LET predictions == last.body.predictions
            monthly == MonthlyFromDaily(predictions, last.body.periods \div 30)
        IN /\ \A i \in 1..Len(predictions) :
                 /\ 0 <= predictions[i].yhat_lower.num
                 /\ predictions[i].yhat_lower.num <= predictions[i].yhat.num * 100
                 /\ predictions[i].yhat.num * 100 <= predictions[i].yhat_upper.num
           /\ \A k \in 1..Len(monthly) :
                 /\ 0 <= monthly[k].lower_bound
                 /\ monthly[k].lower_bound <= monthly[k].predicted_expenses
                 /\ monthly[k].predicted_expenses <= monthly[k].upper_bound

----------------------------------------------------------------------------
(* POST /ai/forecast.  The dates of this ledger carry a day; the time-series *)
(* library is outside the program, so what it does is an input of the        *)
(* request: absent, failing (too few points or an exception, both answered   *)
(* None), or fitted with the daily prediction it returns for every day.      *)

\* The day number of a date, counted from 1 January 2025.
DayNumber(date) ==
    (date.year - 2025) * 365
      + (IF date.month = 1 THEN 0 ELSE MonthEnds[date.month - 1]) + date.day

\* prepare_timeseries_data: the rows of one type summed by day in absolute
\* value, as a series sorted by day.
prepare_timeseries_data(rows, transaction_type) ==
    LET filtered == {t \in rows : t.transaction_type = transaction_type}
        days == {DayNumber(t.date) : t \in filtered}
        y(d) == LET on_day == {t \in filtered : DayNumber(t.date) = d}
                IN SumOver(on_day, [t \in on_day |-> Abs(t.amount)])
        sorted == SelectSeq([d \in 1..MaxOf(days) |-> d], LAMBDA d : d \in days)
    IN [i \in 1..Len(sorted) |-> [ds |-> sorted[i], y |-> y(sorted[i])]]

\* forecast_with_prophet: whether it returns predictions (None otherwise).
forecast_with_prophet(df, periods, prophet) == Len(df) >= 10 /\ prophet.fitted

\* The monthly entries built from the library's predictions: the sums per
\* calendar month and the confidence from the interval's width; dividing by a
\* monthly sum of 0 gives inf or nan, which int() refuses: error is TRUE then.
MonthlyFromProphet(df, periods, months, prophet) ==
    LET last_date == df[Len(df)].ds
        month == [i \in 1..periods |-> MonthOfDay(last_date + i)]
        groups == {month[i] : i \in 1..periods}
        first == month[1]
        days(m) == Cardinality({i \in 1..periods : month[i] = m})
        entry(m) ==
            LET monthly_sum == days(m) * prophet.yhat
                monthly_lower == days(m) * prophet.yhat_lower
                monthly_upper == days(m) * prophet.yhat_upper
                \* 100 - interval_width * 100, over |monthly_sum|
                num == 100 * monthly_sum - 100 * (monthly_upper - monthly_lower)
                cut == IF monthly_sum > 0 THEN IntOf(num, monthly_sum)
                       ELSE IF monthly_sum < 0 THEN IntOf(-num, -monthly_sum)
                       ELSE 0
            IN [month |-> m,
                predicted_expenses |-> monthly_sum,
                lower_bound |-> monthly_lower,
                upper_bound |-> monthly_upper,
                confidence |-> Max(70, IF cut > 95 THEN 95 ELSE cut)]
    IN [error |-> \E m \in groups : days(m) * prophet.yhat = 0,
        forecast |-> [k \in 1..(IF Cardinality(groups) < months
                                THEN Cardinality(groups) ELSE months) |->
                         entry(first + k - 1)]]

\* A request to the endpoint that has not been answered yet.
ForecastRequest(months, category, prophet) ==
    [op |-> "call forecast_expenses", caller |-> 0, id |-> 0, status |-> 0,
     detail |-> "",
     body |-> [months |-> months, category |-> category, prophet |-> prophet]]

\* POST /ai/forecast
forecast_expenses(s) ==
    /\ last.op = "call forecast_expenses"
    /\ UNCHANGED <<db_sql, pending>>
    /\ history' = NoHistory
    /\ UNCHANGED <<users, sessions, transactions, budgets, goals, today>>
    /\ LET q == last.body
           current_user == get_current_user(s.access_token)
           rows == {t \in transactions :
                       /\ t.user_id = current_user.id
                       /\ (q.category # Absent /\ Val(q.category) # "")
                             => t.category = Val(q.category)}
           df == prepare_timeseries_data(rows, "expense")
           answer(method, forecast) ==
               Ok("forecast_expenses", s.user_id, 0, 200,
                  [request |-> q, method |-> method, forecast |-> forecast])
       IN IF current_user = NoUser
          THEN last' = Unauthorized("forecast_expenses")
          ELSE IF rows = {}
          THEN last' = answer("none", <<>>)
          ELSE IF Len(df) < 3
          THEN last' = answer("insufficient_data", <<>>)
          ELSE IF /\ q.prophet.available
                  /\ forecast_with_prophet(df, q.months * 30, q.prophet)
          THEN LET monthly == MonthlyFromProphet(df, q.months * 30, q.months,
                                                 q.prophet)
               IN IF monthly.error
                  THEN last' = [Error("forecast_expenses", s.user_id, 0, 500,
                                      "Forecast failed")
                                EXCEPT !.body = [request |-> q, method |-> "",
                                                 forecast |-> <<>>]]
                  ELSE last' = answer("prophet", monthly.forecast)
          ELSE last' = answer("statistical",
                              MonthlyFromDaily(ForecastFallback(df, q.months * 30),
                                               q.months))

\* What the library does: absent, failing, or fitted with a daily prediction.
Prophet(available, fitted, yhat, yhat_lower, yhat_upper) ==
    [available |-> available, fitted |-> fitted, yhat |-> yhat,
     yhat_lower |-> yhat_lower, yhat_upper |-> yhat_upper]

ProphetOutcomes == {Prophet(FALSE, FALSE, 0, 0, 0),
                    Prophet(TRUE, FALSE, 0, 0, 0),
                    Prophet(TRUE, TRUE, 20, 15, 25),
                    Prophet(TRUE, TRUE, 0, 0, 0)}

\* Alice's expenses of one amount on the first n days of January 2025, a second
\* expense on the first of them, and an income on the 5th.
ForecastLedger(n, amount) ==
    {[id |-> i, user_id |-> Alice.id, amount |-> amount, category |-> Food,
      transaction_type |-> "expense",
      date |-> [year |-> 2025, month |-> 1, day |-> i]] : i \in 1..n}
    \cup {[id |-> n + 1, user_id |-> Alice.id, amount |-> amount, category |-> Food,
           transaction_type |-> "expense",
           date |-> [year |-> 2025, month |-> 1, day |-> 1]] : i \in 1..n}
    \cup {[id |-> n + 2, user_id |-> Alice.id, amount |-> 500, category |-> Salary,
           transaction_type |-> "income",
           date |-> [year |-> 2025, month |-> 1, day |-> 5]]}

ForecastDays == {0, 2, 3, 9, 10}
ForecastAmounts == {0, 20, -20}
ForecastHorizons == {1, 3, 12}

InitEndpoint ==
    /\ users = {Alice, Bob}
    /\ sessions = {SessionOf(u) : u \in {Alice, Bob}}
    /\ \E n \in ForecastDays, a \in ForecastAmounts : transactions = ForecastLedger(n, a)
    /\ budgets = {}
    /\ goals = {}
    /\ today = 0
    /\ db_sql = TRUE
    /\ pending = {}
    /\ history = NoHistory
    /\ \E months \in ForecastHorizons, category \in Optional({Food, "Travel"}),
          prophet \in ProphetOutcomes :
          last = ForecastRequest(months, category, prophet)

NextEndpoint == \E s \in sessions : forecast_expenses(s)

SpecEndpoint == InitEndpoint /\ [][NextEndpoint]_vars

\* The caller's transactions that match the request of the last response.
Matching ==
    {t \in transactions :
        /\ t.user_id = last.caller
        /\ last.body.request.category # Absent
              => t.category = Val(last.body.request.category)}

\* The number of distinct days the matching expenses fall on.
ExpenseDays ==
    Cardinality({DayNumber(t.date) :
                    t \in {x \in Matching : x.transaction_type = "expense"}})

\* C26: the forecast endpoint answers every request with one of four methods:
\* "none" with an empty forecast exactly when the caller has no matching
\* transactions, "insufficient_data" with an empty forecast exactly when there
\* are some and the matching expenses cover fewer than 3 distinct days,
\* "prophet" only when the library is available and fitting succeeded, and
\* otherwise "statistical" with a non-empty forecast; no request whose data
\* the statistical fallback can run on is answered with an error.
C26_ForecastMethod ==
    last.op = "forecast_expenses" =>
        LET r == last.body
            p == r.request.prophet
        IN /\ (r.method = "none") <=> (Matching = {})
           /\ (r.method = "insufficient_data") <=> (Matching # {} /\ ExpenseDays < 3)
           /\ r.method \in {"none", "insufficient_data"} => r.forecast = <<>>
           /\ r.method = "prophet" => (p.available /\ p.fitted)
           /\ (Matching # {} /\ ExpenseDays >= 3 /\ r.method # "prophet")
                 => (r.method = "statistical" /\ r.forecast # <<>>)
           /\ (Matching # {} /\ ExpenseDays >= 3) => last.status = 200

----------------------------------------------------------------------------
(* Completion of goals, over the goals specification.                        *)

\* C27: in every state reached by creating, updating and contributing to
\* goals, every goal whose current_amount is at least its target_amount has
\* is_completed = true.
C27_ReachedTargetIsCompleted ==
    \A g \in goals : g.current_amount >= g.target_amount => g.is_completed

\* C28: completion is permanent: no update or contribution makes is_completed
\* false on a goal on which it was true.
C28_CompletionIsPermanent ==
    [][last'.op \in {"update_goal", "contribute"} =>
          \A g \in goals : \A h \in goals' :
              (g.id = h.id /\ g.is_completed) => h.is_completed]_vars

----------------------------------------------------------------------------
(* Monthly analytics: GET /analytics/monthly beside GET /analytics/summary.  *)

\* The entry of one month: the incomes summed as they are, every other
\* transaction summed in absolute value as an expense.
MonthlyEntry(rows, key) ==
    LET of_month == {t \in rows : DateKey(t.date) = key}
        income == {t \in of_month : t.transaction_type = "income"}
        others == of_month \ income
        income_sum == SumOver(income, [t \in income |-> t.amount])
        expenses_sum == SumOver(others, [t \in others |-> Abs(t.amount)])
    IN [month |-> key,
        income |-> income_sum,
        expenses |-> expenses_sum,
        savings |-> income_sum - expenses_sum]

\* GET /analytics/monthly: one entry per month that has a transaction, sorted
\* by month.
get_monthly_analytics(s) ==
    /\ UNCHANGED <<db_sql, pending>>
    /\ history' = NoHistory
    /\ UNCHANGED <<users, sessions, transactions, budgets, goals, today>>
    /\ LET current_user == get_current_user(s.access_token)
           rows == TransactionsOf(current_user)
           keys == {DateKey(t.date) : t \in rows}
           lowest == IF keys = {} THEN 1 ELSE CHOOSE k \in keys : \A j \in keys : k <= j
           sorted == SelectSeq([k \in 1..(MaxOf(keys) - lowest + 1) |-> lowest + k - 1],
                               LAMBDA k : k \in keys)
       IN IF current_user = NoUser
          THEN last' = Unauthorized("monthly")
          ELSE last' = Ok("monthly", s.user_id, 0, 200,
                          [result |-> [i \in 1..Len(sorted) |->
                                          MonthlyEntry(rows, sorted[i])]])

\* The transactions recorded: the type is any string the client sends.
MonthlyCreates == {TxRequest(100, "income", Some(January), Salary),
                   TxRequest(40, "expense", Some(January), Food),
                   TxRequest(-30, "expense", Some(February), Food),
                   TxRequest(25, "transfer", Some(February), "Other")}

InitMonthly ==
    /\ SignedIn
    /\ transactions = {}
    /\ budgets = {}
    /\ goals = {}

NextMonthly ==
    \/ \E s \in sessions, r \in MonthlyCreates :
          create_transaction(s, r.amount, r.transaction_type, r.date, r.category)
    \/ \E s \in sessions : get_analytics_summary(s)
    \/ \E s \in sessions : get_monthly_analytics(s)

SpecMonthly == InitMonthly /\ [][NextMonthly]_vars

\* C29: whatever transactions are stored, the monthly analytics of a user agree
\* with that user's summary: the monthly incomes sum to total_income, the
\* monthly expenses to total_expenses and the monthly savings to net_savings.
C29_MonthlyAgreesWithSummary ==
    (last.op = "monthly" /\ last.status = 200) =>
        LET result == last.body.result
            rows == {t \in transactions : t.user_id = last.caller}
            months == DOMAIN result
        IN /\ SumOver(months, [i \in months |-> result[i].income])
                 = TotalIncome(rows)
           /\ SumOver(months, [i \in months |-> result[i].expenses])
                 = TotalExpenses(rows)
           /\ SumOver(months, [i \in months |-> result[i].savings])
                 = TotalIncome(rows) - TotalExpenses(rows)

====
